---------------------------- MODULE Spec2Model ----------------------------
(***************************************************************************)
(* A model of lambda-OCRmyPDF: the option validator (_validation.py), the  *)
(* command line entry point run() (__main__.py), the S3 handler            *)
(* (apply-ocr-to-s3-object.py) and the image optimiser (optimize.py).      *)
(*                                                                         *)
(* The module holds four state machines over disjoint groups of variables; *)
(* each specification runs one of them and keeps the others idle:          *)
(*   SpecPages     _pages_from_ranges applied to one value of --pages      *)
(*   SpecRun       run(): check_options, then run_pipeline                 *)
(*   SpecS3        apply_ocr_to_document_handler, one step per call        *)
(*   SpecOptimize  optimize(), one step per pass                           *)
(***************************************************************************)
EXTENDS Integers, Sequences, FiniteSets, TLC

VARIABLES
    \* ---- _pages_from_ranges ----
    pg_pc,            \* "idle" | "call" | "done"
    pg_items,         \* the items the argument was written from, if it was
    ranges,           \* the argument: a string (sequence of characters) or an iterable
    pg_result,        \* [exc, pages, warned]: what the call raised or returned
    \* ---- run() ----
    run_pc,           \* "idle" | "start" | "checked" | "returned"
    options,          \* the options namespace, as check_options mutates it
    env,              \* what the installed external programs provide
    exc,              \* exception check_options raised ("none" if it returned)
    failed_at,        \* the check function that raised ("none" if none did)
    exit_code,        \* what run() returned (-1 before it returns)
    pipeline_invoked, \* whether run_pipeline was called
    \* ---- apply_ocr_to_document_handler ----
    s3_pc,            \* position in the handler
    event,            \* the Lambda event
    bucket_obj,       \* content of the S3 objects: [key, bak]
    tmp,              \* local files: [input, rinput, output]
    ocr_calls,        \* outcomes of the ocrmypdf.ocr calls of this invocation, in order
    ocr_inputs,       \* the file each of those calls was given and what it held
    s3_raised,        \* the exception the handler propagated ("none" if none)
    uploads,          \* the upload_file calls that completed, in order
    \* ---- optimize() ----
    opt_pc,           \* position in optimize()
    encoder_runs,     \* the JBIG2 encoder invocations, in submission order
    extract_errors,   \* [fn, xref]: the calls of an extraction function that raised
    pool_pc,          \* position of the thread that runs a pass with a pool
    pool_pass,        \* "jbig2" (_produce_jbig2_images) or "png" (transcode_pngs)
    jobs,             \* options.jobs
    tasks,            \* the encoder tasks of the pass, in submission order
    task_state,       \* of each task: "new", "queued", "running", "done"
    finished,         \* the tasks in the order they completed
    collected,        \* how many futures as_completed has handed out
    pool_exc,         \* the exception raised inside the with block
    pdf_writes,       \* the xrefs written to the PDF, in order
    write_idx,        \* how many tasks' outputs the write loop has handled
    \* ---- re_symlink ----
    ln_pc,            \* "idle" | "call" | "returned" | "raised"
    ln_args,          \* [input_file, soft_link_name] as the caller spelled them
    ln_before,        \* the file system when re_symlink was called
    ln_fs,            \* the file system now
    ln_exc,           \* the exception re_symlink raised ("none" if none)
    oopts,            \* context.options as optimize() reads and sets it
    pike,             \* the open PDF: [images: xref -> image object, pages: page -> xrefs]
    jpegs,            \* xrefs extract_images_generic returned as JPEGs
    pngs,             \* xrefs extract_images_generic returned as PNGs
    jbig2_groups,     \* group number -> sequence of xrefs (extract_images_jbig2)
    root,             \* the images directory: file name -> size
    fs,               \* input_file, target_file and output_file
    rewrites,         \* every im_obj.write so far: [xref, pass, old, new]
    opt_raised        \* the exception optimize() raised ("none" if none)

pagesVars == <<pg_pc, pg_items, ranges, pg_result>>
runVars == <<run_pc, options, env, exc, failed_at, exit_code, pipeline_invoked>>
s3Vars == <<s3_pc, event, bucket_obj, tmp, ocr_calls, ocr_inputs, s3_raised, uploads>>
optVars == <<opt_pc, oopts, pike, jpegs, pngs, jbig2_groups, root, fs, rewrites, opt_raised,
             encoder_runs, extract_errors>>
poolVars == <<pool_pc, pool_pass, jobs, tasks, task_state, finished, collected, pool_exc,
              pdf_writes, write_idx>>
linkVars == <<ln_pc, ln_args, ln_before, ln_fs, ln_exc>>
vars == <<pagesVars, runVars, s3Vars, optVars, poolVars, linkVars>>

\* The state of a machine that a specification does not run.
PagesIdle ==
    /\ pg_pc = "idle" /\ pg_items = <<>> /\ ranges = <<>> /\ pg_result = <<>>
RunIdle ==
    /\ run_pc = "idle" /\ options = <<>> /\ env = <<>> /\ exc = "none"
    /\ failed_at = "none" /\ exit_code = 0 - 1 /\ pipeline_invoked = FALSE
S3Idle ==
    /\ s3_pc = "idle" /\ event = <<>> /\ bucket_obj = <<>> /\ tmp = <<>>
    /\ ocr_calls = <<>> /\ ocr_inputs = <<>> /\ s3_raised = "none" /\ uploads = <<>>
OptIdle ==
    /\ opt_pc = "idle" /\ oopts = <<>> /\ pike = <<>> /\ jpegs = <<>> /\ pngs = <<>>
    /\ jbig2_groups = <<>> /\ root = <<>> /\ fs = <<>> /\ rewrites = <<>>
    /\ opt_raised = "none" /\ encoder_runs = <<>> /\ extract_errors = <<>>
LinkIdle ==
    /\ ln_pc = "idle" /\ ln_args = <<>> /\ ln_before = <<>> /\ ln_fs = <<>>
    /\ ln_exc = "none"
PoolIdle ==
    /\ pool_pc = "idle" /\ pool_pass = "none" /\ jobs = 0 /\ tasks = <<>>
    /\ task_state = <<>> /\ finished = <<>> /\ collected = 0 /\ pool_exc = "none"
    /\ pdf_writes = <<>> /\ write_idx = 0

(***************************************************************************)
(* Bounds of the model.                                                    *)
(***************************************************************************)
\* Largest page number written in a generated --pages argument.
MaxPage == 3
\* Longest arbitrary --pages string.
MaxLen == 3

(***************************************************************************)
(* Strings are sequences of one-character strings, so that split, replace  *)
(* and int are computed as Python computes them.                           *)
(***************************************************************************)
DigitChars == {"0", "1", "2", "3", "4", "5", "6", "7", "8", "9"}

DigitVal(c) ==
    CASE c = "0" -> 0 [] c = "1" -> 1 [] c = "2" -> 2 [] c = "3" -> 3
      [] c = "4" -> 4 [] c = "5" -> 5 [] c = "6" -> 6 [] c = "7" -> 7
      [] c = "8" -> 8 [] c = "9" -> 9

DigitChar(d) ==
    CASE d = 0 -> "0" [] d = 1 -> "1" [] d = 2 -> "2" [] d = 3 -> "3"
      [] d = 4 -> "4" [] d = 5 -> "5" [] d = 6 -> "6" [] d = 7 -> "7"
      [] d = 8 -> "8" [] d = 9 -> "9"

\* str.replace(' ', '')
RemoveSpaces(s) == SelectSeq(s, LAMBDA c : c # " ")

\* str.split(sep): always at least one part; "".split(",") = [""]
RECURSIVE Split(_, _)
Split(s, sep) ==
    IF \A i \in 1..Len(s) : s[i] # sep
    THEN <<s>>
    ELSE LET i == CHOOSE k \in 1..Len(s) :
                      s[k] = sep /\ \A j \in 1..(k - 1) : s[j] # sep
         IN <<SubSeq(s, 1, i - 1)>> \o Split(SubSeq(s, i + 1, Len(s)), sep)

IsDigits(s) == Len(s) > 0 /\ \A i \in 1..Len(s) : s[i] \in DigitChars

\* Whether int(s) returns: an optional sign, then decimal digits.
IntValid(s) ==
    \/ IsDigits(s)
    \/ Len(s) > 1 /\ s[1] \in {"-", "+"} /\ IsDigits(Tail(s))

RECURSIVE DigitsValue(_)
DigitsValue(s) ==
    IF Len(s) = 0 THEN 0
    ELSE 10 * DigitsValue(SubSeq(s, 1, Len(s) - 1)) + DigitVal(s[Len(s)])

\* int(s), for s with IntValid(s)
IntValue(s) ==
    IF s[1] = "-" THEN 0 - DigitsValue(Tail(s))
    ELSE IF s[1] = "+" THEN DigitsValue(Tail(s))
    ELSE DigitsValue(s)

\* list(range(a, b))
Range(a, b) == [i \in 1..(b - a) |-> a + i - 1]

\* helpers.monotonic: all(b > a for a, b in zip(L, L[1:]))
monotonic(L) == \A i \in 1..(Len(L) - 1) : L[i + 1] > L[i]

\* helpers.is_iterable_notstr
is_iterable_notstr(thing) == thing.kind = "iter"

SeqToSet(s) == {s[i] : i \in 1..Len(s)}

(***************************************************************************)
(* _pages_from_ranges.  The loop over page_groups stops at the first group *)
(* that raises.                                                            *)
(***************************************************************************)
\* One iteration of "for g in page_groups", with the pages collected so far.
MutGroupStep(pages, g) ==
    IF Len(g) = 0 THEN [exc |-> "none", pages |-> pages]
    ELSE LET parts == Split(g, "-") IN
         IF Len(parts) # 2
         THEN IF IntValid(g)
              THEN [exc |-> "none", pages |-> Append(pages, IntValue(g) - 1)]
              ELSE [exc |-> "ValueError", pages |-> pages]
         ELSE IF IntValid(parts[1]) /\ IntValid(parts[2])
              THEN [exc |-> "none",
                    pages |-> pages \o Range(IntValue(parts[1]) - 1,
                                             IntValue(parts[2]) - 1)]
              ELSE [exc |-> "BadArgsError", pages |-> pages]

GroupStep(pages, g) ==
    IF Len(g) = 0 THEN [exc |-> "none", pages |-> pages]
    ELSE LET parts == Split(g, "-") IN
         IF Len(parts) # 2
         THEN \* start, end = g.split('-') raised ValueError
              IF IntValid(g)
              THEN [exc |-> "none", pages |-> Append(pages, IntValue(g) - 1)]
              ELSE [exc |-> "ValueError", pages |-> pages]
         ELSE IF IntValid(parts[1]) /\ IntValid(parts[2])
              THEN [exc |-> "none",
                    pages |-> pages \o Range(IntValue(parts[1]) - 1,
                                             IntValue(parts[2]))]
              ELSE [exc |-> "BadArgsError", pages |-> pages]

RECURSIVE GroupLoop(_, _, _)
GroupLoop(page_groups, i, pages) ==
    IF i > Len(page_groups) THEN [exc |-> "none", pages |-> pages]
    ELSE LET r == GroupStep(pages, page_groups[i]) IN
         IF r.exc # "none" THEN r ELSE GroupLoop(page_groups, i + 1, r.pages)

PagesFromString(chars) ==
    LET r == GroupLoop(Split(RemoveSpaces(chars), ","), 1, <<>>) IN
    IF r.exc # "none"
    THEN [exc |-> r.exc, pages |-> {}, warned |-> FALSE]
    ELSE IF \E i \in 1..Len(r.pages) : r.pages[i] < 0
    THEN [exc |-> "BadArgsError", pages |-> {}, warned |-> ~monotonic(r.pages)]
    ELSE [exc |-> "none", pages |-> SeqToSet(r.pages),
          warned |-> ~monotonic(r.pages)]

_pages_from_ranges(r) ==
    IF is_iterable_notstr(r)
    THEN [exc |-> "none", pages |-> SeqToSet(r.items), warned |-> FALSE]
    ELSE PagesFromString(r.chars)


(***************************************************************************)
(* The values of --pages the model calls _pages_from_ranges with.          *)
(***************************************************************************)
\* A value of options.pages: None, a string, a non-string iterable of indices
\* or, once check_options_ocr_behavior has parsed it, a set of indices.
NoneArg == [kind |-> "none", chars |-> <<>>, items |-> <<>>, set |-> {}]
StrArg(chars) == [kind |-> "str", chars |-> chars, items |-> <<>>, set |-> {}]
IterArg(items) == [kind |-> "iter", chars |-> <<>>, items |-> items, set |-> {}]
SetArg(set) == [kind |-> "set", chars |-> <<>>, items |-> <<>>, set |-> set]

\* An item is a page <<p>> or a range <<a, b>>, as the user means it.
Items ==
    {<<p>> : p \in 0..MaxPage} \cup {<<a, b>> : a \in 0..MaxPage, b \in 0..MaxPage}

ExampleItemLists ==
    { << <<1, 3>>, <<5>>, <<7, 9>> >>,
      << <<1>>, <<1>>, <<2>> >>,
      << <<10, 12>> >>,
      << <<2>>, <<9, 11>> >> }

ItemLists ==
    {<<>>} \cup {<<a>> : a \in Items} \cup {<<a, b>> : a \in Items, b \in Items}
      \cup ExampleItemLists

\* str(n) for n >= 0
RECURSIVE ToDigits(_)
ToDigits(n) ==
    IF n < 10 THEN <<DigitChar(n)>>
    ELSE ToDigits(n \div 10) \o <<DigitChar(n % 10)>>

RenderItem(it) ==
    IF Len(it) = 1 THEN ToDigits(it[1])
    ELSE ToDigits(it[1]) \o <<"-">> \o ToDigits(it[2])

RECURSIVE Join(_, _)
Join(il, sep) ==
    IF Len(il) = 0 THEN <<>>
    ELSE IF Len(il) = 1 THEN RenderItem(il[1])
    ELSE RenderItem(il[1]) \o sep \o Join(Tail(il), sep)

\* How the user spaces the items: plain, with spaces, with empty items.
Decorations == {"plain", "spaced", "empties"}

Render(il, d) ==
    CASE d = "plain" -> Join(il, <<",">>)
      [] d = "spaced" -> <<" ">> \o Join(il, <<",", " ">>) \o <<" ">>
      [] d = "empties" -> <<",">> \o Join(il, <<",", ",">>) \o <<",">>

Alphabet == {"0", "1", "2", "3", "-", ",", " "}

RECURSIVE StringsOfLen(_)
StringsOfLen(n) ==
    IF n = 0 THEN {<<>>}
    ELSE {Append(s, c) : s \in StringsOfLen(n - 1), c \in Alphabet}

ArbitraryStrings == UNION {StringsOfLen(n) : n \in 0..MaxLen}

IterValues == (0 - 1)..MaxPage
Iterables ==
    {<<>>} \cup {<<a>> : a \in IterValues}
      \cup {<<a, b>> : a \in IterValues, b \in IterValues}

NoItems == [given |-> FALSE, items |-> <<>>]

InitPages ==
    /\ pg_pc = "call"
    /\ pg_result = <<>>
    /\ \/ \E il \in ItemLists, d \in Decorations :
             /\ pg_items = [given |-> TRUE, items |-> il]
             /\ ranges = StrArg(Render(il, d))
       \/ \E s \in ArbitraryStrings :
             /\ pg_items = NoItems
             /\ ranges = StrArg(s)
       \/ \E it \in Iterables :
             /\ pg_items = NoItems
             /\ ranges = IterArg(it)
    /\ RunIdle /\ S3Idle /\ OptIdle /\ PoolIdle /\ LinkIdle

PagesFromRanges ==
    /\ pg_pc = "call"
    /\ pg_result' = _pages_from_ranges(ranges)
    /\ pg_pc' = "done"
    /\ UNCHANGED <<pg_items, ranges, runVars, s3Vars, optVars, poolVars, linkVars>>

NextPages == PagesFromRanges

SpecPages == InitPages /\ [][NextPages]_vars

(***************************************************************************)
(* What the user means by a list of items.                                 *)
(***************************************************************************)
ItemPages(it) ==
    IF Len(it) = 1 THEN {it[1] - 1} ELSE (it[1] - 1)..(it[2] - 1)

Expected(il) == UNION {ItemPages(il[i]) : i \in 1..Len(il)}

\* Every item is a page number p >= 1 or a range a-b with 1 <= a <= b.
WellFormed(il) ==
    \A i \in 1..Len(il) :
        /\ il[i][1] >= 1
        /\ Len(il[i]) = 2 => il[i][1] <= il[i][2]

HasDescendingRange(il) ==
    \E i \in 1..Len(il) : Len(il[i]) = 2 /\ il[i][1] > il[i][2]

\* C5: for a string of comma-separated items, each a page number p >= 1 or a
\* range a-b with 1 <= a <= b, with spaces and empty items ignored,
\* _pages_from_ranges returns exactly the 0-based indices {p-1} and {a-1..b-1}.
C5_RangeParserResult ==
    (pg_pc = "done" /\ pg_items.given /\ WellFormed(pg_items.items))
        => /\ pg_result.exc = "none"
           /\ pg_result.pages = Expected(pg_items.items)

\* "1-3,5,7-9" was parsed into {0,1,2,4,6,7,8}.
C5_Witness ==
    /\ pg_pc = "done"
    /\ pg_items.given
    /\ ranges.chars = <<"1", "-", "3", ",", "5", ",", "7", "-", "9">>
    /\ pg_result.pages = {0, 1, 2, 4, 6, 7, 8}

\* C6: for every range item a-b with a > b, _pages_from_ranges raises
\* BadArgsError instead of silently contributing no pages.
C6_DescendingRangeRejected ==
    (pg_pc = "done" /\ pg_items.given /\ HasDescendingRange(pg_items.items))
        => pg_result.exc = "BadArgsError"


(***************************************************************************)
(* check_options and the functions it calls.  Each takes the options o and *)
(* the environment e (what the installed programs provide) and gives       *)
(* [o |-> the options as it leaves them, exc |-> what it raised].          *)
(***************************************************************************)
Ok(o) == [o |-> o, exc |-> "none"]
Raise(o, x) == [o |-> o, exc |-> x]

\* exec.check_external_program: a program that is missing or too old raises
\* MissingDependencyError unless it is only recommended.
check_external_program(o, ok, recommended) ==
    IF ~ok /\ ~recommended THEN Raise(o, "MissingDependencyError") ELSE Ok(o)

\* A language entry is the sequence of codes joined by '+' in the argument.
check_options_languages(o, e) ==
    LET l1 == IF Len(o.language) = 0 THEN << <<"eng">> >> ELSE o.language
        l2 == IF Len(l1[1]) > 1
              THEN [i \in 1..Len(l1[1]) |-> <<l1[1][i]>>]
              ELSE l1
        o2 == [o EXCEPT !.language = l2]
        languages == SeqToSet(l2)
    IN IF \A l \in languages : Len(l) = 1 /\ l[1] \in e.tess_languages
       THEN Ok(o2)
       ELSE Raise(o2, "MissingDependencyError")

\* unicodedata.category(c) == 'Co': the private use area and planes 15, 16
IsPrivateUse(c) ==
    \/ c \in 57344..63743
    \/ c \in 983040..1048573
    \/ c \in 1048576..1114109

AboveBMP == 65536

UnsupportedChar(c) == IsPrivateUse(c) \/ c >= AboveBMP

check_options_metadata(o, e) ==
    LET docinfo == <<o.title, o.author, o.keywords, o.subject>> IN
    IF \E i \in 1..4 : \E j \in 1..Len(docinfo[i]) : UnsupportedChar(docinfo[i][j])
    THEN Raise(o, "ValueError")
    ELSE Ok(o)

\* Leaves force_ocr out of the options that rule out lossless reconstruction.
MutCheckOptionsOutput(o, e) ==
    LET o1 == IF o.pdf_renderer = "auto"
              THEN [o EXCEPT !.pdf_renderer = "sandwich"] ELSE o
    IN IF o1.pdf_renderer = "sandwich" /\ ~e.has_textonly_pdf
       THEN Raise(o1, "MissingDependencyError")
       ELSE
    LET o2 == IF o1.output_type = "pdfa"
              THEN [o1 EXCEPT !.output_type = "pdfa-2"] ELSE o1
    IN IF o2.output_type = "pdfa-3" /\ e.gs_before_919
       THEN Raise(o2, "MissingDependencyError")
       ELSE
    LET lossless_reconstruction ==
            ~(o2.deskew \/ o2.clean_final \/ o2.remove_background)
        o3 == [o2 EXCEPT !.lossless_reconstruction =
                             IF lossless_reconstruction THEN "True" ELSE "False"]
    IN IF o3.lossless_reconstruction = "False" /\ o3.redo_ocr
       THEN Raise(o3, "BadArgsError")
       ELSE Ok(o3)

check_options_output(o, e) ==
    LET o1 == IF o.pdf_renderer = "auto"
              THEN [o EXCEPT !.pdf_renderer = "sandwich"] ELSE o
    IN IF o1.pdf_renderer = "sandwich" /\ ~e.has_textonly_pdf
       THEN Raise(o1, "MissingDependencyError")
       ELSE
    LET o2 == IF o1.output_type = "pdfa"
              THEN [o1 EXCEPT !.output_type = "pdfa-2"] ELSE o1
    IN IF o2.output_type = "pdfa-3" /\ e.gs_before_919
       THEN Raise(o2, "MissingDependencyError")
       ELSE
    LET lossless_reconstruction ==
            ~(o2.deskew \/ o2.clean_final \/ o2.force_ocr \/ o2.remove_background)
        o3 == [o2 EXCEPT !.lossless_reconstruction =
                             IF lossless_reconstruction THEN "True" ELSE "False"]
    IN IF o3.lossless_reconstruction = "False" /\ o3.redo_ocr
       THEN Raise(o3, "BadArgsError")
       ELSE Ok(o3)

\* Raises for every requested sidecar, named or not, when output is stdout.
MutCheckOptionsSidecar(o, e) ==
    IF o.sidecar # "None" /\ o.output_file = "-"
    THEN Raise(o, "BadArgsError")
    ELSE IF o.sidecar = "NUL"
    THEN Ok([o EXCEPT !.sidecar = o.output_file \o ".txt"])
    ELSE Ok(o)

\* "NUL" is the '\0' argparse stores for --sidecar given without a file name.
check_options_sidecar(o, e) ==
    IF o.sidecar = "NUL"
    THEN IF o.output_file = "-"
         THEN Raise(o, "BadArgsError")
         ELSE Ok([o EXCEPT !.sidecar = o.output_file \o ".txt"])
    ELSE Ok(o)

NoneStr == [kind |-> "none", chars |-> <<>>, list |-> <<>>]
Str(chars) == [kind |-> "str", chars |-> chars, list |-> <<>>]
List(l) == [kind |-> "list", chars |-> <<>>, list |-> l]
Truthy(v) ==
    CASE v.kind = "none" -> FALSE
      [] v.kind = "str" -> Len(v.chars) > 0
      [] v.kind = "iter" -> Len(v.items) > 0
      [] v.kind = "list" -> Len(v.list) > 0
      [] v.kind = "set" -> v.set # {}

\* shlex.split for arguments without quotes or escapes: the words between spaces
shlex_split(chars) == SelectSeq(Split(chars, " "), LAMBDA w : Len(w) > 0)

\* Only the first argument is looked at.
MutValidateCustomArgs(args) ==
    LET unpaper_args == shlex_split(args) IN
    IF unpaper_args # <<>> /\ \E j \in 1..Len(unpaper_args[1]) : unpaper_args[1][j] = "/"
    THEN [exc |-> "ValueError", value |-> <<>>]
    ELSE [exc |-> "none", value |-> unpaper_args]

\* unpaper.validate_custom_args
validate_custom_args(args) ==
    LET unpaper_args == shlex_split(args) IN
    IF \E i \in 1..Len(unpaper_args) :
           \E j \in 1..Len(unpaper_args[i]) : unpaper_args[i][j] = "/"
    THEN [exc |-> "ValueError", value |-> <<>>]
    ELSE [exc |-> "none", value |-> unpaper_args]

check_options_preprocessing(o, e) ==
    LET o1 == IF o.clean_final THEN [o EXCEPT !.clean = TRUE] ELSE o IN
    IF Truthy(o1.unpaper_args) /\ ~o1.clean
    THEN Raise(o1, "BadArgsError")
    ELSE IF ~o1.clean THEN Ok(o1)
    ELSE LET p == check_external_program(o1, e.unpaper_ok, FALSE) IN
         IF p.exc # "none" THEN p
         ELSE IF ~Truthy(o1.unpaper_args) THEN Ok(o1)
         ELSE LET v == validate_custom_args(o1.unpaper_args.chars) IN
              IF v.exc # "none"
              THEN Raise(o1, "BadArgsError")
              ELSE Ok([o1 EXCEPT !.unpaper_args = List(v.value)])

Count(b) == IF b THEN 1 ELSE 0

\* Raises only when all three mode selectors are set.
MutCheckOptionsOcrBehavior(o, e) ==
    LET exclusive_options ==
            Count(o.force_ocr) + Count(o.skip_text) + Count(o.redo_ocr)
    IN IF exclusive_options > 2 THEN Raise(o, "BadArgsError")
       ELSE IF Truthy(o.pages) /\ o.sidecar # "None" THEN Raise(o, "BadArgsError")
       ELSE IF ~Truthy(o.pages) THEN Ok(o)
       ELSE LET r == _pages_from_ranges(o.pages) IN
            IF r.exc # "none" THEN Raise(o, r.exc)
            ELSE Ok([o EXCEPT !.pages = SetArg(r.pages)])

check_options_ocr_behavior(o, e) ==
    LET exclusive_options ==
            Count(o.force_ocr) + Count(o.skip_text) + Count(o.redo_ocr)
    IN IF exclusive_options >= 2 THEN Raise(o, "BadArgsError")
       ELSE IF Truthy(o.pages) /\ o.sidecar # "None" THEN Raise(o, "BadArgsError")
       ELSE IF ~Truthy(o.pages) THEN Ok(o)
       ELSE LET r == _pages_from_ranges(o.pages) IN
            IF r.exc # "none" THEN Raise(o, r.exc)
            ELSE Ok([o EXCEPT !.pages = SetArg(r.pages)])

check_options_optimizing(o, e) ==
    LET p == IF o.optimize >= 2
             THEN check_external_program(o, e.pngquant_ok, FALSE) ELSE Ok(o)
    IN IF p.exc # "none" THEN p
       ELSE IF o.optimize >= 2
       THEN check_external_program(o, e.jbig2_ok, ~o.jbig2_lossy)
       ELSE Ok(o)

\* Only warnings.
check_options_advanced(o, e) == Ok(o)

\* Sets PIL.Image.MAX_IMAGE_PIXELS; the options are left as they are.
check_options_pillow(o, e) == Ok(o)

check_dependency_versions(o, e) ==
    LET t == check_external_program(o, e.tesseract_ok, FALSE) IN
    IF t.exc # "none" THEN t
    ELSE LET g == check_external_program(o, e.gs_ok, FALSE) IN
    IF g.exc # "none" THEN g
    ELSE IF e.gs_is_924 THEN Raise(o, "MissingDependencyError")
    ELSE check_external_program(o, e.qpdf_ok, FALSE)

CheckOrder ==
    << "check_options_languages", "check_options_metadata",
       "check_options_output", "check_options_sidecar",
       "check_options_preprocessing", "check_options_ocr_behavior",
       "check_options_optimizing", "check_options_advanced",
       "check_options_pillow", "check_dependency_versions" >>

CheckStep(name, o, e) ==
    CASE name = "check_options_languages" -> check_options_languages(o, e)
      [] name = "check_options_metadata" -> check_options_metadata(o, e)
      [] name = "check_options_output" -> check_options_output(o, e)
      [] name = "check_options_sidecar" -> check_options_sidecar(o, e)
      [] name = "check_options_preprocessing" -> check_options_preprocessing(o, e)
      [] name = "check_options_ocr_behavior" -> check_options_ocr_behavior(o, e)
      [] name = "check_options_optimizing" -> check_options_optimizing(o, e)
      [] name = "check_options_advanced" -> check_options_advanced(o, e)
      [] name = "check_options_pillow" -> check_options_pillow(o, e)
      [] name = "check_dependency_versions" -> check_dependency_versions(o, e)

RECURSIVE CheckFrom(_, _, _)
CheckFrom(i, o, e) ==
    IF i > Len(CheckOrder)
    THEN [o |-> o, exc |-> "none", failed_at |-> "none"]
    ELSE LET r == CheckStep(CheckOrder[i], o, e) IN
         IF r.exc # "none"
         THEN [o |-> r.o, exc |-> r.exc, failed_at |-> CheckOrder[i]]
         ELSE CheckFrom(i + 1, r.o, e)

check_options(o, e) == CheckFrom(1, o, e)

\* The position of a check function in check_options.
StepNo(name) == CHOOSE i \in 1..Len(CheckOrder) : CheckOrder[i] = name

\* Whether check function `name` was called and returned.
Passed(name) ==
    /\ run_pc \in {"checked", "returned"}
    /\ failed_at # "closed_streams"
    /\ failed_at = "none" \/ StepNo(failed_at) > StepNo(name)

\* Whether check function `name` was called.
Reached(name) ==
    /\ run_pc \in {"checked", "returned"}
    /\ failed_at # "closed_streams"
    /\ failed_at = "none" \/ StepNo(failed_at) >= StepNo(name)

\* check_closed_streams: False only before Python 3.6.4, when a stream that
\* the options name is closed.
check_closed_streams(o, e) ==
    IF ~e.python_before_364 THEN TRUE
    ELSE IF e.stdin_closed /\ o.input_file = "-" THEN FALSE
    ELSE IF e.stdout_closed /\ o.output_file = "-" THEN FALSE
    ELSE TRUE


(***************************************************************************)
(* run(): parse_args gives the options (Init), then check_closed_streams   *)
(* and check_options, then either an except clause or run_pipeline.        *)
(***************************************************************************)
ExitCode_ok == 0
ExitCode_bad_args == 1
ExitCode_input_file == 2
ExitCode_missing_dependency == 3
ExitCode_encrypted_pdf == 8
ExitCode_other_error == 15

\* BadArgsError.exit_code
BadArgsError_exit_code == ExitCode_bad_args

\* Every caught exception is reported as bad_args.
MutExitCodeFor(x) == ExitCode_bad_args

\* The except clauses of run().
ExitCodeFor(x) ==
    CASE x = "ValueError" -> ExitCode_bad_args
      [] x = "BadArgsError" -> BadArgsError_exit_code
      [] x = "MissingDependencyError" -> ExitCode_missing_dependency

\* What run_pipeline may return.
PipelineResults ==
    {ExitCode_ok, ExitCode_bad_args, ExitCode_input_file,
     ExitCode_encrypted_pdf, ExitCode_other_error}

GoodEnv ==
    [ tess_languages |-> {"eng", "deu"}, has_textonly_pdf |-> TRUE,
      gs_before_919 |-> FALSE, gs_is_924 |-> FALSE,
      unpaper_ok |-> TRUE, pngquant_ok |-> TRUE, jbig2_ok |-> TRUE,
      tesseract_ok |-> TRUE, gs_ok |-> TRUE, qpdf_ok |-> TRUE,
      python_before_364 |-> FALSE, stdin_closed |-> FALSE,
      stdout_closed |-> FALSE ]

\* The environment with all programs as required, or lacking one of them.
Envs ==
    { GoodEnv,
      [GoodEnv EXCEPT !.tess_languages = {"eng"}],
      [GoodEnv EXCEPT !.has_textonly_pdf = FALSE],
      [GoodEnv EXCEPT !.gs_before_919 = TRUE],
      [GoodEnv EXCEPT !.gs_is_924 = TRUE],
      [GoodEnv EXCEPT !.unpaper_ok = FALSE],
      [GoodEnv EXCEPT !.pngquant_ok = FALSE],
      [GoodEnv EXCEPT !.jbig2_ok = FALSE],
      [GoodEnv EXCEPT !.tesseract_ok = FALSE],
      [GoodEnv EXCEPT !.gs_ok = FALSE],
      [GoodEnv EXCEPT !.qpdf_ok = FALSE],
      [GoodEnv EXCEPT !.python_before_364 = TRUE, !.stdout_closed = TRUE],
      [GoodEnv EXCEPT !.python_before_364 = TRUE, !.stdin_closed = TRUE] }

ToChars(str) ==
    CASE str = "1-2" -> <<"1", "-", "2">>
      [] str = "0" -> <<"0">>
      [] str = "3-0" -> <<"3", "-", "0">>
      [] str = "1-2-3" -> <<"1", "-", "2", "-", "3">>
      [] str = "--dpi 300" -> <<"-", "-", "d", "p", "i", " ", "3", "0", "0">>
      [] str = "a/b" -> <<"a", "/", "b">>
      [] str = "" -> <<>>

PagesOptions ==
    { NoneArg, StrArg(ToChars("")), StrArg(ToChars("1-2")), StrArg(ToChars("0")),
      StrArg(ToChars("3-0")), StrArg(ToChars("1-2-3")),
      IterArg(<<>>), IterArg(<<0, 2>>), IterArg(<<0 - 1>>) }

SidecarOptions == {"None", "NUL", "out.txt"}
OutputFiles == {"-", "out.pdf"}
UnpaperArgs ==
    { NoneStr, Str(ToChars("--dpi 300")), Str(ToChars("a/b")),
      Str(<<"-", "x", " ", "/", "e">>) }
\* "A", "A" with U+E000 (private use), U+1F600 (above the BMP), U+F0000
MetadataStrings == {<<>>, <<65>>, <<65, 57344>>, <<128512>>, <<983040>>}

DefaultOptions ==
    [ input_file |-> "in.pdf", output_file |-> "out.pdf",
      language |-> <<>>,
      title |-> <<>>, author |-> <<>>, keywords |-> <<>>, subject |-> <<>>,
      pdf_renderer |-> "auto", output_type |-> "pdfa",
      deskew |-> FALSE, clean_final |-> FALSE, clean |-> FALSE,
      force_ocr |-> FALSE, skip_text |-> FALSE, redo_ocr |-> FALSE,
      remove_background |-> FALSE,
      lossless_reconstruction |-> "unset",
      sidecar |-> "None", unpaper_args |-> NoneStr, pages |-> NoneArg,
      optimize |-> 1, jbig2_lossy |-> FALSE ]

D == [o |-> DefaultOptions, e |-> GoodEnv]

\* The command lines: the defaults with one group of related options set.
Variations ==
    {[D EXCEPT !.o.sidecar = s, !.o.output_file = f, !.o.pages = p] :
        s \in SidecarOptions, f \in OutputFiles, p \in PagesOptions}
    \cup {[D EXCEPT !.o.unpaper_args = u, !.e = e] :
        u \in UnpaperArgs, e \in {GoodEnv, [GoodEnv EXCEPT !.unpaper_ok = FALSE]}}
    \cup {[D EXCEPT !.o.title = t] : t \in MetadataStrings}
    \cup {[D EXCEPT !.o.author = t] : t \in MetadataStrings}
    \cup {[D EXCEPT !.o.keywords = t] : t \in MetadataStrings}
    \cup {[D EXCEPT !.o.subject = t] : t \in MetadataStrings}
    \cup {[D EXCEPT !.o.language = l, !.e = e] :
        l \in { << <<"eng">> >>, << <<"eng", "deu">> >>,
                << <<"eng">>, <<"deu">> >>, << <<"eng">>, <<"deu", "eng">> >>,
                << <<"fra">> >> },
        e \in {GoodEnv, [GoodEnv EXCEPT !.tess_languages = {"eng"}]}}
    \cup {[D EXCEPT !.o.optimize = n, !.o.jbig2_lossy = l, !.e = e] :
        n \in 0..3, l \in BOOLEAN,
        e \in {GoodEnv, [GoodEnv EXCEPT !.pngquant_ok = FALSE],
               [GoodEnv EXCEPT !.jbig2_ok = FALSE]}}
    \cup {[D EXCEPT !.o.output_type = t, !.o.pdf_renderer = r, !.e = e] :
        t \in {"pdf", "pdfa", "pdfa-3"}, r \in {"auto", "hocr", "sandwich"},
        e \in {GoodEnv, [GoodEnv EXCEPT !.has_textonly_pdf = FALSE],
               [GoodEnv EXCEPT !.gs_before_919 = TRUE]}}
    \cup {[D EXCEPT !.o.input_file = i, !.o.output_file = f, !.e = e] :
        i \in {"-", "in.pdf"}, f \in OutputFiles,
        e \in {[GoodEnv EXCEPT !.python_before_364 = TRUE, !.stdout_closed = TRUE],
               [GoodEnv EXCEPT !.python_before_364 = TRUE, !.stdin_closed = TRUE]}}
    \cup {[D EXCEPT !.e = e] : e \in Envs}

BoolOptions ==
    [ {"deskew", "clean_final", "clean", "force_ocr", "skip_text", "redo_ocr",
       "remove_background"} -> BOOLEAN ]

WithBools(o, b) ==
    [o EXCEPT !.deskew = b["deskew"], !.clean_final = b["clean_final"],
              !.clean = b["clean"], !.force_ocr = b["force_ocr"],
              !.skip_text = b["skip_text"], !.redo_ocr = b["redo_ocr"],
              !.remove_background = b["remove_background"]]

InitRun ==
    /\ run_pc = "start"
    /\ \E v \in Variations, b \in BoolOptions :
          /\ options = WithBools(v.o, b)
          /\ env = v.e
    /\ exc = "none"
    /\ failed_at = "none"
    /\ exit_code = 0 - 1
    /\ pipeline_invoked = FALSE
    /\ PagesIdle /\ S3Idle /\ OptIdle /\ PoolIdle /\ LinkIdle

\* run(), lines 33-53: up to the call of check_options
RunCheckOptions ==
    /\ run_pc = "start"
    /\ IF ~check_closed_streams(options, env)
       THEN /\ exit_code' = ExitCode_bad_args
            /\ failed_at' = "closed_streams"
            /\ run_pc' = "returned"
            /\ UNCHANGED <<options, exc>>
       ELSE LET r == check_options(options, env) IN
            /\ options' = r.o
            /\ exc' = r.exc
            /\ failed_at' = r.failed_at
            /\ run_pc' = "checked"
            /\ UNCHANGED exit_code
    /\ UNCHANGED <<env, pipeline_invoked, pagesVars, s3Vars, optVars, poolVars, linkVars>>

\* run(), lines 54-62: an except clause returns the exit code
RunReturnError ==
    /\ run_pc = "checked"
    /\ exc # "none"
    /\ exit_code' = ExitCodeFor(exc)
    /\ run_pc' = "returned"
    /\ UNCHANGED <<options, env, exc, failed_at, pipeline_invoked,
                   pagesVars, s3Vars, optVars, poolVars, linkVars>>

\* run(), lines 64-65: check_options returned
RunPipeline ==
    /\ run_pc = "checked"
    /\ exc = "none"
    /\ pipeline_invoked' = TRUE
    /\ \E result \in PipelineResults : exit_code' = result
    /\ run_pc' = "returned"
    /\ UNCHANGED <<options, env, exc, failed_at, pagesVars, s3Vars, optVars, poolVars, linkVars>>

NextRun == RunCheckOptions \/ RunReturnError \/ RunPipeline

SpecRun == InitRun /\ [][NextRun]_vars


\* check_options was called (check_closed_streams let run() go on).
Validated == run_pc \in {"checked", "returned"} /\ failed_at # "closed_streams"

\* C4: whenever check_options raises BadArgsError, ValueError (such as the
\* rejection of a metadata string with a private-use or above-BMP character)
\* or MissingDependencyError, run() returns the mapped exit code (1 for
\* BadArgsError and ValueError, 3 for MissingDependencyError) and
\* run_pipeline is never invoked.
C4_FailFast ==
    /\ pipeline_invoked => exc = "none"
    /\ (run_pc = "returned" /\ exc \in {"BadArgsError", "ValueError"})
           => exit_code = 1
    /\ (run_pc = "returned" /\ exc = "MissingDependencyError")
           => exit_code = 3

\* run() has returned 3 for a missing dependency without running the pipeline.
C4_Witness ==
    /\ run_pc = "returned"
    /\ exc = "MissingDependencyError"
    /\ exit_code = 3
    /\ ~pipeline_invoked

\* C7: after check_options_ocr_behavior succeeds, options.pages contains no
\* negative index, whether pages was given as a range string or as a
\* non-string iterable of indices.
C7_NoNegativePages ==
    (Passed("check_options_ocr_behavior") /\ options.pages.kind = "set")
        => \A p \in options.pages.set : p >= 0

SelectorsSet ==
    Count(options.force_ocr) + Count(options.skip_text) + Count(options.redo_ocr)

C9_SidecarStdoutRejected ==
    (Reached("check_options_sidecar") /\ options.sidecar # "None"
        /\ options.output_file = "-")
        => (failed_at = "check_options_sidecar" /\ exc = "BadArgsError")

\* C9, amended: check_options_sidecar raises BadArgsError exactly when the
\* sidecar is requested without a file name (to be derived from the output
\* name) and output_file is "-"; a sidecar with an explicit file name is
\* accepted with stdout output.
C9_DerivedSidecarStdoutRejected ==
    Reached("check_options_sidecar")
        => ((failed_at = "check_options_sidecar" /\ exc = "BadArgsError")
               <=> (options.sidecar = "NUL" /\ options.output_file = "-"))

\* --sidecar without a file name was rejected with output to stdout.
C9_Witness ==
    /\ run_pc = "returned"
    /\ options.sidecar = "NUL"
    /\ options.output_file = "-"
    /\ failed_at = "check_options_sidecar"
    /\ exc = "BadArgsError"
    /\ ~pipeline_invoked


(***************************************************************************)
(* apply_ocr_to_document_handler, one step per external call.  A file or   *)
(* an S3 object is named by what it holds: "absent", "original" (the PDF   *)
(* as downloaded), "raster" (the rasterised copy), "partial" (what a       *)
(* failed OCR run may leave behind) or "complete" (the output of an OCR    *)
(* run that returned).                                                     *)
(***************************************************************************)
Events ==
    [ awsRegion : {"None", "eu-west-1"},
      bucket : {"None", "docs"},
      key : {"", "scan.pdf"},
      pages : {"None", "1-2"},
      doBackup : {"None", "False", "True"} ]

\* Truth value of an event field.
EventTruthy(v) == v \notin {"None", "False", ""}

OcrOutcomes == {"ok", "EncryptedPdfError", "OtherError"}

InitS3 ==
    /\ s3_pc = "start"
    /\ event \in Events
    /\ \E k \in {"original", "absent"}, b \in {"absent", "old_backup"} :
          bucket_obj = [key |-> k, bak |-> b]
    /\ tmp = [input |-> "absent", rinput |-> "absent", output |-> "absent"]
    /\ ocr_calls = <<>>
    /\ ocr_inputs = <<>>
    /\ s3_raised = "none"
    /\ uploads = <<>>
    /\ PagesIdle /\ RunIdle /\ OptIdle /\ PoolIdle /\ LinkIdle

S3Frame == UNCHANGED <<pagesVars, runVars, optVars, poolVars, linkVars>>

\* print(e); raise e
S3Raise(e) ==
    /\ s3_raised' = e
    /\ s3_pc' = "raised"

\* lines 13-26: the handler does nothing without a region, a bucket and a key
S3Start ==
    /\ s3_pc = "start"
    /\ s3_pc' = IF EventTruthy(event.awsRegion) /\ EventTruthy(event.bucket)
                      /\ event.key # ""
                THEN "download" ELSE "returned"
    /\ UNCHANGED <<event, bucket_obj, tmp, ocr_calls, ocr_inputs, s3_raised, uploads>>
    /\ S3Frame

\* line 30: s3.download_file
S3Download ==
    /\ s3_pc = "download"
    /\ \/ /\ bucket_obj.key # "absent"
          /\ tmp' = [tmp EXCEPT !.input = bucket_obj.key]
          /\ s3_pc' = "ocr1"
          /\ UNCHANGED s3_raised
       \/ /\ S3Raise("ClientError")
          /\ UNCHANGED tmp
    /\ UNCHANGED <<event, bucket_obj, ocr_calls, ocr_inputs, uploads>>
    /\ S3Frame

\* What an ocrmypdf.ocr call leaves at outputname.
OutputAfter(outcome, before) ==
    IF outcome = "ok" THEN {"complete"} ELSE {before, "partial"}

\* Every exception of the first OCR call leads to the retry.
MutAfterFirstOcr(outcome) == IF outcome = "ok" THEN "backup" ELSE "rasterize"

\* lines 31-33: where the handler goes after the first ocrmypdf.ocr call
AfterFirstOcr(outcome) ==
    CASE outcome = "ok" -> "backup"
      [] outcome = "EncryptedPdfError" -> "rasterize"
      [] OTHER -> "raised"

\* An exception of the second OCR call is swallowed.
MutAfterSecondOcr(outcome) == "backup"

\* line 41: where the handler goes after the second ocrmypdf.ocr call
AfterSecondOcr(outcome) == IF outcome = "ok" THEN "backup" ELSE "raised"

\* line 32: ocrmypdf.ocr(inputname, outputname, pages=pages, force_ocr=True)
S3FirstOcr ==
    /\ s3_pc = "ocr1"
    /\ \E outcome \in OcrOutcomes :
          /\ ocr_calls' = Append(ocr_calls, outcome)
          /\ ocr_inputs' = Append(ocr_inputs, [file |-> "inputname", holds |-> tmp.input])
          /\ \E out \in OutputAfter(outcome, tmp.output) :
                tmp' = [tmp EXCEPT !.output = out]
          /\ s3_pc' = AfterFirstOcr(outcome)
          /\ s3_raised' = IF AfterFirstOcr(outcome) = "raised"
                          THEN outcome ELSE s3_raised
    /\ UNCHANGED <<event, bucket_obj, uploads>>
    /\ S3Frame

\* lines 34-40: pdf2image.convert_from_path and images[0].save
S3Rasterize ==
    /\ s3_pc = "rasterize"
    /\ \/ /\ tmp' = [tmp EXCEPT !.rinput = "raster"]
          /\ s3_pc' = "ocr2"
          /\ UNCHANGED s3_raised
       \/ /\ S3Raise("OtherError")
          /\ UNCHANGED tmp
    /\ UNCHANGED <<event, bucket_obj, ocr_calls, ocr_inputs, uploads>>
    /\ S3Frame

\* line 41: ocrmypdf.ocr(_inputname, outputname, pages=pages, force_ocr=True)
S3SecondOcr ==
    /\ s3_pc = "ocr2"
    /\ \E outcome \in OcrOutcomes :
          /\ ocr_calls' = Append(ocr_calls, outcome)
          /\ ocr_inputs' = Append(ocr_inputs, [file |-> "_inputname", holds |-> tmp.rinput])
          /\ \E out \in OutputAfter(outcome, tmp.output) :
                tmp' = [tmp EXCEPT !.output = out]
          /\ s3_pc' = AfterSecondOcr(outcome)
          /\ s3_raised' = IF AfterSecondOcr(outcome) = "raised"
                          THEN outcome ELSE s3_raised
    /\ UNCHANGED <<event, bucket_obj, uploads>>
    /\ S3Frame

\* The backup is skipped whatever doBackup says.
MutS3Backup ==
    /\ s3_pc = "backup"
    /\ s3_pc' = "upload"
    /\ UNCHANGED <<event, bucket_obj, tmp, ocr_calls, ocr_inputs, s3_raised, uploads>>
    /\ S3Frame

\* lines 43-44: if do_backup: s3.upload_file(inputname, bucket, key + '.bak')
S3Backup ==
    /\ s3_pc = "backup"
    /\ IF EventTruthy(event.doBackup)
       THEN \/ /\ tmp.input # "absent"
               /\ bucket_obj' = [bucket_obj EXCEPT !.bak = tmp.input]
               /\ uploads' = Append(uploads, "bak")
               /\ s3_pc' = "upload"
               /\ UNCHANGED s3_raised
            \/ /\ S3Raise("S3UploadFailedError")
               /\ UNCHANGED <<bucket_obj, uploads>>
       ELSE /\ s3_pc' = "upload"
            /\ UNCHANGED <<bucket_obj, uploads, s3_raised>>
    /\ UNCHANGED <<event, tmp, ocr_calls, ocr_inputs>>
    /\ S3Frame

\* line 45: s3.upload_file(outputname, bucket, key)
S3Upload ==
    /\ s3_pc = "upload"
    /\ \/ /\ tmp.output # "absent"
          /\ bucket_obj' = [bucket_obj EXCEPT !.key = tmp.output]
          /\ uploads' = Append(uploads, "key")
          /\ s3_pc' = "cleanup"
          /\ UNCHANGED s3_raised
       \/ /\ S3Raise(IF tmp.output = "absent" THEN "FileNotFoundError"
                     ELSE "S3UploadFailedError")
          /\ UNCHANGED <<bucket_obj, uploads>>
    /\ UNCHANGED <<event, tmp, ocr_calls, ocr_inputs>>
    /\ S3Frame

\* lines 46-48: os.remove(inputname); os.remove(outputname); return
S3Cleanup ==
    /\ s3_pc = "cleanup"
    /\ tmp' = [tmp EXCEPT !.input = "absent", !.output = "absent"]
    /\ s3_pc' = "returned"
    /\ UNCHANGED <<event, bucket_obj, ocr_calls, ocr_inputs, s3_raised, uploads>>
    /\ S3Frame

NextS3 ==
    \/ S3Start \/ S3Download \/ S3FirstOcr \/ S3Rasterize \/ S3SecondOcr
    \/ S3Backup \/ S3Upload \/ S3Cleanup

SpecS3 == InitS3 /\ [][NextS3]_vars

\* Some ocrmypdf.ocr call of this invocation returned without raising.
OcrReturned == \E i \in 1..Len(ocr_calls) : ocr_calls[i] = "ok"

\* C3: the upload that overwrites bucket/key happens only after an
\* ocrmypdf.ocr call of the invocation has returned without raising, and what
\* it publishes is that call's complete output; if every OCR attempt raises,
\* the handler re-raises and the object at key is never overwritten.
C3_NoPartialPublish ==
    /\ "key" \in SeqToSet(uploads) => OcrReturned
    /\ bucket_obj.key \in {"original", "absent", "complete"}
    /\ bucket_obj.key = "complete" => OcrReturned
    /\ (Len(ocr_calls) > 0 /\ ~OcrReturned)
           => /\ s3_pc \in {"rasterize", "ocr2", "raised"}
              /\ uploads = <<>>
              /\ s3_pc = "raised" => s3_raised # "none"

\* The retry after EncryptedPdfError returned and its output was uploaded.
C3_Witness ==
    /\ s3_pc = "returned"
    /\ ocr_calls = <<"EncryptedPdfError", "ok">>
    /\ bucket_obj.key = "complete"


(***************************************************************************)
(* The image optimiser.  An image object is a record                       *)
(*   [Subtype, Length, filters, bpc, indexed, cs, gen, smask, decode,      *)
(*    globals]                                                             *)
(* where filters is the /Filter array, cs the base colour space, gen the   *)
(* generation number, smask the xref of its /SMask (0 if none), decode the *)
(* /Decode array and globals whether /DecodeParms names /JBIG2Globals;     *)
(* jbig2_from is the xref of the image whose extracted file the JBIG2      *)
(* stream it was given was encoded from (0 if it was given none).          *)
(***************************************************************************)
DEFAULT_JPEG_QUALITY == 75
DEFAULT_PNG_QUALITY == 70
\* extract_image_filter skips images whose Length is below this.
SmallImageLength == 100

\* How far an encoder's output may be from the length of the stream it read.
MaxDelta == 1
\* Largest size of a PDF file.
MaxFileSize == 2

SIMPLE_COLORSPACES == {"/DeviceRGB", "/DeviceGray", "/CalRGB", "/CalGray"}

\* /DecodeParms without /JBIG2Globals; otherwise globals is the number of the
\* group whose symbol dictionary the /JBIG2Globals stream holds.
NoGlobals == 0 - 1

Img(filters, bpc, indexed, cs, length) ==
    [ Subtype |-> "/Image", Length |-> length, filters |-> filters, bpc |-> bpc,
      indexed |-> indexed, cs |-> cs, gen |-> 0, smask |-> 0,
      decode |-> "default", globals |-> NoGlobals, jbig2_from |-> 0 ]

\* PdfImageBase.mode ("" where the code raises NotImplementedError)
mode(image) ==
    IF image.indexed THEN "P"
    ELSE IF image.bpc = 1 THEN "1"
    ELSE IF image.bpc = 8 /\ image.cs \in {"/DeviceRGB"} THEN "RGB"
    ELSE IF image.bpc = 8 /\ image.cs \in {"/DeviceGray"} THEN "L"
    ELSE IF image.bpc = 8 /\ image.cs \in {"/DeviceCMYK"} THEN "CMYK"
    ELSE ""

\* PdfImage._extract_to_stream: the extension of the file written, or
\* "Unsupported" for UnsupportedImageTypeError.  /ColorTransform is the default.
extract_to(image) ==
    IF image.filters = <<"/CCITTFaxDecode">> /\ image.cs # "/ICCBased"
    THEN ".tif"
    ELSE IF image.filters = <<"/DCTDecode">> /\ mode(image) \in {"L", "RGB", "CMYK"}
    THEN ".jpg"
    ELSE IF \/ mode(image) = "RGB" /\ image.bpc = 8
            \/ mode(image) \in {"L", "P"} /\ image.bpc = 8
            \/ mode(image) = "1" /\ image.bpc = 1
            \/ mode(image) = "P" /\ image.bpc = 1
    THEN ".png"
    ELSE "Unsupported"

\* pim.as_pil_image().save(png_name(root, xref)): ".png", or the exception
\* as_pil_image raises when the image can be neither copied nor transcoded.
as_pil_image_save(image) ==
    IF extract_to(image) = "Unsupported" THEN "UnsupportedImageTypeError"
    ELSE ".png"

\* extract_image_filter: "None", "IndexError" (no filter at all), or "pim".
extract_image_filter(image) ==
    IF image.Subtype # "/Image" THEN "None"
    ELSE IF image.Length < SmallImageLength THEN "None"
    ELSE IF Len(image.filters) > 1 THEN "None"
    ELSE IF Len(image.filters) = 0 THEN "IndexError"
    ELSE IF image.bpc > 8 THEN "None"
    ELSE IF image.filters[1] = "/JPXDecode" THEN "None"
    ELSE "pim"

\* extract_image_jbig2: the extension of the extracted file, "None" or an
\* exception.  filtdp is the pair (filter, parms), so that the comparison
\* filtdp != Name.JBIG2Decode of a pair with a name is always true.
extract_image_jbig2(image, o) ==
    LET result == extract_image_filter(image) IN
    IF result # "pim" THEN result
    ELSE LET filtdp == <<image.filters[1], "parms">> IN
         IF image.bpc = 1 /\ filtdp # <<"/JBIG2Decode">> /\ o.jbig2enc_available
         THEN IF extract_to(image) = "Unsupported" THEN "None"
              ELSE extract_to(image)
         ELSE "None"

\* Palette images are extracted at every optimisation level.
MutExtractImageGeneric(image, o) ==
    LET result == extract_image_filter(image) IN
    IF result # "pim" THEN result
    ELSE IF image.filters[1] = "/DCTDecode" /\ o.optimize >= 2
    THEN IF extract_to(image) = "Unsupported" THEN "None" ELSE extract_to(image)
    ELSE IF image.cs \in SIMPLE_COLORSPACES
    THEN as_pil_image_save(image)
    ELSE "None"

\* extract_image_generic: the extension of the extracted file, "None" or an
\* exception.
extract_image_generic(image, o) ==
    LET result == extract_image_filter(image) IN
    IF result # "pim" THEN result
    ELSE IF image.filters[1] = "/DCTDecode" /\ o.optimize >= 2
    THEN IF extract_to(image) = "Unsupported" THEN "None" ELSE extract_to(image)
    ELSE IF image.indexed /\ image.cs \in SIMPLE_COLORSPACES /\ o.optimize >= 3
    THEN as_pil_image_save(image)
    ELSE IF ~image.indexed /\ image.cs \in SIMPLE_COLORSPACES
    THEN as_pil_image_save(image)
    ELSE "None"

ExtractFn(fn, image, o) ==
    IF fn = "extract_image_jbig2" THEN extract_image_jbig2(image, o)
    ELSE extract_image_generic(image, o)

\* extract_images, lines 166-187: the xrefs passed to extract_fn
working_xrefs(pk) ==
    LET listed == UNION {SeqToSet(pk.pages[i]) : i \in 1..Len(pk.pages)}
        include_xrefs == {x \in listed : pk.images[x].gen = 0}
        exclude_xrefs == {pk.images[x].smask : x \in
                             {y \in include_xrefs : pk.images[y].smask # 0}}
    IN include_xrefs \ exclude_xrefs

\* The last page that lists the xref is recorded.
MutPagenoForXref(pk, xref) ==
    (CHOOSE i \in 1..Len(pk.pages) :
        /\ xref \in SeqToSet(pk.pages[i])
        /\ \A j \in (i + 1)..Len(pk.pages) : xref \notin SeqToSet(pk.pages[j])) - 1

\* extract_images, lines 184-185: the first page (0-based) that lists the xref
pageno_for_xref(pk, xref) ==
    (CHOOSE i \in 1..Len(pk.pages) :
        /\ xref \in SeqToSet(pk.pages[i])
        /\ \A j \in 1..(i - 1) : xref \notin SeqToSet(pk.pages[j])) - 1

\* The exceptions an extraction function lets through.
ExtractExceptions == {"IndexError", "UnsupportedImageTypeError"}

\* extract_images, lines 189-196: the xrefs for which extract_fn raises, when
\* the PDF library fails to decode the streams of the xrefs in `failing`.
Raising(pk, o, fn, failing) ==
    {x \in working_xrefs(pk) :
        x \in failing \/ ExtractFn(fn, pk.images[x], o) \in ExtractExceptions}

\* The first exception ends the loop over working_xrefs (taken in ascending
\* order): nothing is yielded from the image that raised on.
MutExtractImages(pk, o, fn, failing) ==
    { [pageno |-> pageno_for_xref(pk, x), xref |-> x,
       ext |-> ExtractFn(fn, pk.images[x], o)] :
        x \in {y \in working_xrefs(pk) :
                  /\ ExtractFn(fn, pk.images[y], o) \in {".jpg", ".png", ".tif"}
                  /\ \A z \in Raising(pk, o, fn, failing) : y < z} }

\* extract_images: the set of [pageno, xref, ext] it yields, when extraction
\* raises for the xrefs in `failing`.
extract_images(pk, o, fn, failing) ==
    { [pageno |-> pageno_for_xref(pk, x), xref |-> x,
       ext |-> ExtractFn(fn, pk.images[x], o)] :
        x \in {y \in working_xrefs(pk) \ failing :
                  ExtractFn(fn, pk.images[y], o) \in {".jpg", ".png", ".tif"}} }

\* The elements of a set of integers in ascending order.
RECURSIVE SortedSeq(_)
SortedSeq(S) ==
    IF S = {} THEN <<>>
    ELSE LET m == CHOOSE x \in S : \A y \in S : x <= y
         IN <<m>> \o SortedSeq(S \ {m})

\* Images whose stream the PDF library may be unable to decode.
MayFailDecode(pk) ==
    {x \in working_xrefs(pk) : pk.images[x].filters = <<"/JBIG2Decode">>}


(***************************************************************************)
(* The file system seen by optimize(): three paths, each absent, a regular *)
(* file of some size, or a symbolic link to another path.                  *)
(***************************************************************************)
Absent == [kind |-> "absent", size |-> 0, to |-> ""]
File(size) == [kind |-> "file", size |-> size, to |-> ""]
Symlink(to) == [kind |-> "symlink", size |-> 0, to |-> to]

\* os.path.abspath, with /w the working directory
abspath(path) ==
    CASE path = "in.pdf" -> "/w/in.pdf"
      [] path = "out.pdf" -> "/w/out.pdf"
      [] OTHER -> path

\* The node a path leads to when symbolic links are followed; following more
\* links than there are paths means a loop, which leads nowhere.
RECURSIVE Follow(_, _, _)
Follow(f, abs, n) ==
    IF f[abs].kind # "symlink" THEN f[abs]
    ELSE IF n = 0 THEN Absent
    ELSE Follow(f, f[abs].to, n - 1)

\* os.path.lexists, os.path.islink, os.path.exists, stat().st_size
lexists(f, path) == f[abspath(path)].kind # "absent"
islink(f, path) == f[abspath(path)].kind = "symlink"
exists(f, path) == Follow(f, abspath(path), Cardinality(DOMAIN f)).kind = "file"
st_size(f, path) == Follow(f, abspath(path), Cardinality(DOMAIN f)).size

\* helpers.re_symlink: the file system afterwards and the exception raised.
\* unlink_ok tells whether os.unlink succeeds; its OSError is swallowed, and
\* os.symlink then finds the old link in its way.
re_symlink(f, input_file, soft_link_name, unlink_ok) ==
    IF input_file = soft_link_name THEN [fs |-> f, exc |-> "none"]
    ELSE IF lexists(f, soft_link_name) /\ ~islink(f, soft_link_name)
    THEN [fs |-> f, exc |-> "FileExistsError"]
    ELSE LET unlinked == IF lexists(f, soft_link_name) /\ unlink_ok
                         THEN [f EXCEPT ![abspath(soft_link_name)] = Absent]
                         ELSE f
         IN IF ~exists(unlinked, input_file)
            THEN [fs |-> unlinked, exc |-> "FileNotFoundError"]
            ELSE IF lexists(unlinked, soft_link_name)
            THEN [fs |-> unlinked, exc |-> "FileExistsError"]
            ELSE [fs |-> [unlinked EXCEPT ![abspath(soft_link_name)] =
                             Symlink(abspath(input_file))],
                  exc |-> "none"]

\* The optimiser is never turned off.
MutOptimizeDisabled(o) == o.optimize < 0

\* optimize(), line 455: the test that turns the optimiser off
OptimizeDisabled(o) == o.optimize = 0

\* optimize(), lines 459-464: the defaults of the three tunables
WithDefaults(o) ==
    [o EXCEPT
       !.jpeg_quality = IF o.jpeg_quality = 0
                        THEN (IF o.optimize < 3 THEN DEFAULT_JPEG_QUALITY ELSE 40)
                        ELSE o.jpeg_quality,
       !.png_quality = IF o.png_quality = 0
                       THEN (IF o.optimize < 3 THEN DEFAULT_PNG_QUALITY ELSE 30)
                       ELSE o.png_quality,
       !.jbig2_page_group_size = IF o.jbig2_page_group_size = 0
                                 THEN (IF o.jbig2_lossy THEN 10 ELSE 1)
                                 ELSE o.jbig2_page_group_size]

\* The input documents: their image objects and the xrefs each page lists.
NormalLength == SmallImageLength + MaxDelta
JPEG == Img(<<"/DCTDecode">>, 8, FALSE, "/DeviceRGB", NormalLength)
GRAY8 == Img(<<"/FlateDecode">>, 8, FALSE, "/DeviceGray", NormalLength)
IDX8 == Img(<<"/FlateDecode">>, 8, TRUE, "/DeviceRGB", NormalLength)
FAX == Img(<<"/CCITTFaxDecode">>, 1, FALSE, "/DeviceGray", NormalLength)
\* a fax image with an ICC profile: not in a simple colour space
FAXICC == Img(<<"/CCITTFaxDecode">>, 1, FALSE, "/ICCBased", NormalLength)
JB2 == Img(<<"/JBIG2Decode">>, 1, FALSE, "/DeviceGray", NormalLength)
CMYK8 == Img(<<"/FlateDecode">>, 8, FALSE, "/DeviceCMYK", NormalLength)
JPX == Img(<<"/JPXDecode">>, 8, FALSE, "/DeviceRGB", NormalLength)
STACKED == Img(<<"/FlateDecode", "/DCTDecode">>, 8, FALSE, "/DeviceRGB", NormalLength)
SMALL == Img(<<"/DCTDecode">>, 8, FALSE, "/DeviceRGB", SmallImageLength - 1)
WIDE16 == Img(<<"/FlateDecode">>, 16, FALSE, "/DeviceRGB", NormalLength)
\* a two-colour palette image
IDX1 == Img(<<"/FlateDecode">>, 1, TRUE, "/DeviceRGB", NormalLength)
\* an image without /Filter
RAW8 == Img(<<>>, 8, FALSE, "/DeviceGray", NormalLength)
Profiles == {JPEG, GRAY8, IDX8, FAX, JB2, CMYK8, JPX, STACKED, SMALL, WIDE16, IDX1, RAW8}
ProfilePairs == {<<FAXICC, FAXICC>>, <<JPEG, FAX>>, <<GRAY8, JPEG>>}

OneImageDocs ==
    {[images |-> [x \in {1} |-> p], pages |-> << <<1>> >>] : p \in Profiles}
TwoImageDocs ==
    {[images |-> [x \in {1, 2} |-> pq[x]], pages |-> pp] :
        pq \in ProfilePairs, pp \in {<< <<1, 2>> >>, << <<1>>, <<2>> >>}}
\* image 1 is drawn through the soft mask held in image 2
SMaskDocs ==
    {[images |-> [x \in {1, 2} |-> IF x = 1 THEN [GRAY8 EXCEPT !.smask = 2]
                                             ELSE GRAY8],
      pages |-> << <<1, 2>> >>]}
\* the image that owns the soft mask is listed after the mask, on a later
\* page, or comes from an incremental update (generation 1)
SMaskOrderDocs ==
    {[images |-> [x \in {1, 2} |-> IF x = 1 THEN [GRAY8 EXCEPT !.smask = 2, !.gen = g]
                                             ELSE GRAY8],
      pages |-> pp] :
        g \in {0, 1}, pp \in {<< <<2, 1>> >>, << <<2>>, <<1>> >>}}
\* an image from an incremental update
GenerationDocs ==
    {[images |-> [x \in {1} |-> [p EXCEPT !.gen = 1]], pages |-> << <<1>> >>] :
        p \in {FAX, JPEG}}
\* images used on several pages and several times on one page; a page
\* without XObjects
LayoutDocs ==
    {[images |-> [x \in {1, 2} |-> FAXICC], pages |-> pp] :
        pp \in {<< <<2>>, <<1, 2, 1>> >>, << <<>>, <<1>>, <<2, 1>> >>}}
\* an image for which extraction raises, listed before one that is fine
RaisingDocs ==
    {[images |-> [x \in {1, 2} |-> IF x = 1 THEN RAW8 ELSE GRAY8],
      pages |-> << <<1, 2>> >>]}
Docs ==
    OneImageDocs \cup TwoImageDocs \cup SMaskDocs \cup SMaskOrderDocs
    \cup GenerationDocs \cup LayoutDocs \cup RaisingDocs

\* The options optimize() reads, and whether jbig2enc.available(): every
\* setting of the two qualities with the default grouping, and every setting
\* of the JBIG2 options with the default qualities.
OptimizeOptions ==
    [ optimize : 0..3, jpeg_quality : {0, 50}, png_quality : {0, 60},
      jbig2_page_group_size : {0}, jbig2_lossy : BOOLEAN,
      jbig2enc_available : {TRUE} ]
    \cup
    [ optimize : 0..3, jpeg_quality : {0}, png_quality : {0},
      jbig2_page_group_size : {0, 1, 2}, jbig2_lossy : BOOLEAN,
      jbig2enc_available : BOOLEAN ]

InitOptimize ==
    /\ opt_pc = "start"
    /\ oopts \in OptimizeOptions
    /\ pike \in Docs
    /\ jpegs = <<>> /\ pngs = <<>> /\ jbig2_groups = <<>>
    /\ root = {}
    /\ \E size \in 1..MaxFileSize :
          fs = [path \in {"input_file", "target_file", "output_file"} |->
                   IF path = "input_file" THEN File(size) ELSE Absent]
    /\ rewrites = {}
    /\ opt_raised = "none"
    /\ encoder_runs = <<>>
    /\ extract_errors = {}
    /\ PagesIdle /\ RunIdle /\ S3Idle /\ PoolIdle /\ LinkIdle

OptFrame == UNCHANGED <<pagesVars, runVars, s3Vars, poolVars, linkVars>>

\* optimize(), lines 455-457
OptimizeZero ==
    /\ opt_pc = "start"
    /\ OptimizeDisabled(oopts)
    /\ \E unlink_ok \in BOOLEAN :
       LET r == re_symlink(fs, "input_file", "output_file", unlink_ok) IN
          /\ fs' = r.fs
          /\ opt_raised' = r.exc
          /\ opt_pc' = IF r.exc = "none" THEN "returned" ELSE "raised"
    /\ UNCHANGED <<oopts, pike, jpegs, pngs, jbig2_groups, root, rewrites,
                 encoder_runs, extract_errors>>
    /\ OptFrame

\* optimize(), lines 459-468
OptimizeSetDefaults ==
    /\ opt_pc = "start"
    /\ ~OptimizeDisabled(oopts)
    /\ oopts' = WithDefaults(oopts)
    /\ opt_pc' = "extract_images_generic"
    /\ UNCHANGED <<pike, jpegs, pngs, jbig2_groups, root, fs, rewrites, opt_raised,
                 encoder_runs, extract_errors>>
    /\ OptFrame

Xrefs(yielded, ext) == {y.xref : y \in {z \in yielded : z.ext = ext}}

\* optimize(), line 470: extract_images_generic
ExtractImagesGeneric ==
    /\ opt_pc = "extract_images_generic"
    /\ \E failing \in SUBSET MayFailDecode(pike) :
          LET yielded == extract_images(pike, oopts, "extract_image_generic", failing)
          IN /\ jpegs' = SortedSeq(Xrefs(yielded, ".jpg"))
             /\ pngs' = SortedSeq(Xrefs(yielded, ".png"))
             /\ root' = root \cup {<<y.xref, y.ext>> : y \in yielded}
             /\ extract_errors' = extract_errors \cup
                    {[fn |-> "extract_image_generic", xref |-> x] :
                        x \in Raising(pike, oopts, "extract_image_generic", failing)}
    /\ opt_pc' = "transcode_jpegs"
    /\ UNCHANGED <<oopts, pike, jbig2_groups, fs, rewrites, opt_raised,
                 encoder_runs>>
    /\ OptFrame

\* An encoder's output for the stream of image x differs in size from the
\* stream by delta[x].
Deltas == (0 - MaxDelta)..MaxDelta
Encoded(pk, x, delta) ==
    IF pk.images[x].Length + delta[x] < 1 THEN 1
    ELSE pk.images[x].Length + delta[x]

LogEntry(pk, x, pass, size, written) ==
    [xref |-> x, pass |-> pass, old |-> pk.images[x].Length, cand |-> size,
     written |-> written]

\* optimize(), line 471: transcode_jpegs.  The extracted file holds the
\* stream's raw bytes, so its size is the stream's Length.
TranscodeJpegs ==
    /\ opt_pc = "transcode_jpegs"
    /\ \E delta \in [SeqToSet(jpegs) -> Deltas] :
          LET written == {x \in SeqToSet(jpegs) :
                             ~(Encoded(pike, x, delta) > pike.images[x].Length)}
          IN /\ pike' = [pike EXCEPT !.images =
                    [x \in DOMAIN pike.images |->
                        IF x \in written
                        THEN [pike.images[x] EXCEPT
                                 !.Length = Encoded(pike, x, delta),
                                 !.filters = <<"/DCTDecode">>,
                                 !.globals = NoGlobals]
                        ELSE pike.images[x]]]
             /\ rewrites' = rewrites \cup
                    {LogEntry(pike, x, "jpeg", Encoded(pike, x, delta), x \in written) :
                        x \in SeqToSet(jpegs)}
    /\ opt_pc' = "transcode_pngs"
    /\ UNCHANGED <<oopts, jpegs, pngs, jbig2_groups, root, fs, opt_raised,
                 encoder_runs, extract_errors>>
    /\ OptFrame

\* A palette image of 8 bits is extracted as a palette PNG, one of 1 bit as a
\* bilevel PNG without palette (PdfImage._extract_transcoded).
\* leptonica.CompressedData.open(png_name(root, xref)) for each kind of file
\* found there: the extracted PNG ("plain"), a palette PNG written by
\* pngquant with 1 or 8 bits per sample ("quant1", "quant8"), or a
\* LeptonicaError ("error").
PngKinds(o, image) ==
    {"plain", "error"}
    \cup (IF o.optimize >= 2 THEN {"quant1"} ELSE {})
    \cup (IF o.optimize >= 2 /\ image.bpc > 1 THEN {"quant8"} ELSE {})
CompData(image, kind) ==
    CASE kind = "quant1" -> [bps |-> 1, spp |-> 1, ncolors |-> 2]
      [] kind = "quant8" -> [bps |-> 8, spp |-> 1, ncolors |-> 256]
      [] OTHER -> [bps |-> IF image.bpc = 1 THEN 1 ELSE 8,
                   spp |-> IF mode(image) = "RGB" THEN 3 ELSE 1,
                   ncolors |-> IF image.indexed /\ image.bpc = 8 THEN 256 ELSE 0]

\* transcode_pngs, lines 410-449: the image object after the PNG is inserted
InsertPng(image, compdata, size) ==
    [image EXCEPT
       !.bpc = compdata.bps,
       !.indexed = compdata.ncolors > 0,
       !.cs = IF compdata.ncolors > 0 THEN "/DeviceRGB"
              ELSE IF compdata.spp = 1 THEN "/DeviceGray"
              ELSE IF compdata.spp = 3 THEN "/DeviceRGB"
              ELSE "/DeviceCMYK",
       !.decode = IF compdata.bps = 1 THEN "[1 0]" ELSE image.decode,
       !.filters = <<"/FlateDecode">>,
       !.globals = NoGlobals,
       !.Length = size]

\* optimize(), line 475: transcode_pngs
TranscodePngs ==
    /\ opt_pc = "transcode_pngs"
    /\ \E delta \in [SeqToSet(pngs) -> Deltas],
          kind \in [SeqToSet(pngs) -> {"plain", "error", "quant1", "quant8"}] :
          LET opened == {x \in SeqToSet(pngs) : kind[x] # "error"}
              written == {x \in opened :
                             ~(Encoded(pike, x, delta) > pike.images[x].Length)}
          IN /\ \A x \in SeqToSet(pngs) : kind[x] \in PngKinds(oopts, pike.images[x])
             /\ \A x \in SeqToSet(pngs) : kind[x] = "error" => delta[x] = 0
             /\ pike' = [pike EXCEPT !.images =
                    [x \in DOMAIN pike.images |->
                        IF x \in written
                        THEN InsertPng(pike.images[x],
                                       CompData(pike.images[x], kind[x]),
                                       Encoded(pike, x, delta))
                        ELSE pike.images[x]]]
             /\ rewrites' = rewrites \cup
                    {LogEntry(pike, x, "png", Encoded(pike, x, delta), x \in written) :
                        x \in opened}
    /\ opt_pc' = "extract_images_jbig2"
    /\ UNCHANGED <<oopts, jpegs, pngs, jbig2_groups, root, fs, opt_raised,
                 encoder_runs, extract_errors>>
    /\ OptFrame

\* Every queued image goes to one group, whatever its page.
MutJbig2GroupList(items, size) ==
    IF items = <<>> THEN <<>>
    ELSE << [group |-> 0,
             xref_exts |-> [i \in 1..Len(items) |-> <<items[i].xref, items[i].ext>>]] >>

\* extract_images_jbig2, lines 221-226: the groups in the order the
\* dictionary holds them, each with its list of (xref, ext)
RECURSIVE jbig2_group_list(_, _)
jbig2_group_list(items, size) ==
    IF items = <<>> THEN <<>>
    ELSE LET item == items[Len(items)]
             before == jbig2_group_list(SubSeq(items, 1, Len(items) - 1), size)
             group == item.pageno \div size
             at == {i \in 1..Len(before) : before[i].group = group}
         IN IF at = {}
            THEN Append(before, [group |-> group,
                                 xref_exts |-> << <<item.xref, item.ext>> >>])
            ELSE [before EXCEPT ![CHOOSE i \in at : TRUE].xref_exts =
                                    Append(@, <<item.xref, item.ext>>)]

\* optimize(), line 477: extract_images_jbig2
ExtractImagesJbig2 ==
    /\ opt_pc = "extract_images_jbig2"
    /\ \E failing \in SUBSET MayFailDecode(pike) :
          LET yielded == extract_images(pike, oopts, "extract_image_jbig2", failing)
              items == [i \in 1..Cardinality(yielded) |->
                           CHOOSE y \in yielded :
                               y.xref = SortedSeq({z.xref : z \in yielded})[i]]
          IN /\ jbig2_groups' = jbig2_group_list(items, oopts.jbig2_page_group_size)
             /\ root' = root \cup {<<y.xref, y.ext>> : y \in yielded}
             /\ extract_errors' = extract_errors \cup
                    {[fn |-> "extract_image_jbig2", xref |-> x] :
                        x \in Raising(pike, oopts, "extract_image_jbig2", failing)}
    /\ opt_pc' = "convert_to_jbig2"
    /\ UNCHANGED <<oopts, pike, jpegs, pngs, fs, rewrites, opt_raised,
                 encoder_runs>>
    /\ OptFrame

GroupXrefs(g) == {g.xref_exts[i][1] : i \in 1..Len(g.xref_exts)}

\* The concatenation of a sequence of sequences.
RECURSIVE Flatten(_)
Flatten(ss) == IF ss = <<>> THEN <<>> ELSE ss[1] \o Flatten(Tail(ss))

\* _produce_jbig2_images, lines 239-249: one convert_group per group
jbig2_group_futures(groups) ==
    [i \in 1..Len(groups) |->
        [fn |-> "convert_group", prefix |-> groups[i].group,
         infiles |-> [n \in 1..Len(groups[i].xref_exts) |-> groups[i].xref_exts[n][1]],
         outfile |-> 0 - 1]]

\* The output files of a group are numbered from its last image backwards.
MutJbig2SingleFutures(groups) ==
    Flatten([i \in 1..Len(groups) |->
        [n \in 1..Len(groups[i].xref_exts) |->
            [fn |-> "convert_single", prefix |-> groups[i].group,
             infiles |-> <<groups[i].xref_exts[n][1]>>,
             outfile |-> Len(groups[i].xref_exts) - n]]])

\* _produce_jbig2_images, lines 251-262: one convert_single per image
jbig2_single_futures(groups) ==
    Flatten([i \in 1..Len(groups) |->
        [n \in 1..Len(groups[i].xref_exts) |->
            [fn |-> "convert_single", prefix |-> groups[i].group,
             infiles |-> <<groups[i].xref_exts[n][1]>>,
             outfile |-> n - 1]]])

\* The files an encoder invocation writes, each with the xref of the image
\* it was encoded from: convert_single writes outfile, convert_group writes
\* out_prefix.0000, out_prefix.0001, ... for its input files in their order.
EncoderOutputs(run) ==
    IF run.fn = "convert_single"
    THEN {[name |-> <<run.prefix, run.outfile>>, from |-> run.infiles[1]]}
    ELSE {[name |-> <<run.prefix, n - 1>>, from |-> run.infiles[n]] :
             n \in 1..Len(run.infiles)}

\* The images whose data may be in the file convert_to_jbig2 reads for image
\* x: the file named after x's group and x's position in the group.
Jbig2Source(runs, groups, x) ==
    {f.from : f \in {g \in UNION {EncoderOutputs(runs[k]) : k \in 1..Len(runs)} :
                        \E i \in 1..Len(groups) :
                            \E n \in 1..Len(groups[i].xref_exts) :
                                /\ groups[i].xref_exts[n][1] = x
                                /\ g.name = <<groups[i].group, n - 1>>}}

\* Every image is encoded by its own invocation, whatever the group size.
MutJbig2Futures(groups, o) == jbig2_single_futures(groups)

\* _produce_jbig2_images, lines 264-267
jbig2_futures(groups, o) ==
    IF o.jbig2_page_group_size > 1 THEN jbig2_group_futures(groups)
    ELSE jbig2_single_futures(groups)

\* optimize(), line 478: convert_to_jbig2.  sym[i] tells whether the encoder
\* left a symbol file for the i-th group; the loop stops at the first group
\* that needs one and has none.
ConvertToJbig2 ==
    /\ opt_pc = "convert_to_jbig2"
    /\ \E sym \in [1..Len(jbig2_groups) -> BOOLEAN],
          delta \in [UNION {GroupXrefs(jbig2_groups[i]) :
                               i \in 1..Len(jbig2_groups)} -> Deltas],
          src \in [UNION {GroupXrefs(jbig2_groups[i]) :
                             i \in 1..Len(jbig2_groups)} -> DOMAIN pike.images] :
          LET missing == {i \in 1..Len(jbig2_groups) :
                             ~sym[i] /\ oopts.jbig2_page_group_size # 1}
              done == {i \in 1..Len(jbig2_groups) : \A j \in missing : i < j}
              written == UNION {GroupXrefs(jbig2_groups[i]) : i \in done}
              group_of(x) == CHOOSE i \in done : x \in GroupXrefs(jbig2_groups[i])
          IN /\ oopts.jbig2_page_group_size = 1 => \A i \in DOMAIN sym : ~sym[i]
             /\ \A x \in DOMAIN delta : x \notin written => delta[x] = 0
             /\ \A x \in DOMAIN src :
                   src[x] \in Jbig2Source(jbig2_futures(jbig2_groups, oopts),
                                          jbig2_groups, x)
             /\ pike' = [pike EXCEPT !.images =
                    [x \in DOMAIN pike.images |->
                        IF x \in written
                        THEN [pike.images[x] EXCEPT
                                 !.Length = Encoded(pike, x, delta),
                                 !.filters = <<"/JBIG2Decode">>,
                                 !.jbig2_from = src[x],
                                 !.globals = IF sym[group_of(x)]
                                             THEN jbig2_groups[group_of(x)].group
                                             ELSE NoGlobals]
                        ELSE pike.images[x]]]
             /\ rewrites' = rewrites \cup
                    {LogEntry(pike, x, "jbig2", Encoded(pike, x, delta), TRUE) :
                        x \in written}
             /\ opt_pc' = IF missing = {} THEN "save" ELSE "raised"
             /\ opt_raised' = IF missing = {} THEN "none" ELSE "FileNotFoundError"
    /\ encoder_runs' = jbig2_futures(jbig2_groups, oopts)
    /\ UNCHANGED <<oopts, jpegs, pngs, jbig2_groups, root, fs, extract_errors>>
    /\ OptFrame

\* optimize(), lines 480-482: pike.save(target_file)
OptimizeSave ==
    /\ opt_pc = "save"
    /\ \E size \in 0..MaxFileSize :
          fs' = [fs EXCEPT !["target_file"] = File(size)]
    /\ opt_pc' = "stat"
    /\ UNCHANGED <<oopts, pike, jpegs, pngs, jbig2_groups, root, rewrites, opt_raised,
                 encoder_runs, extract_errors>>
    /\ OptFrame

\* optimize(), lines 484-485
input_size == st_size(fs, "input_file")
output_size == st_size(fs, "target_file")

\* optimize(), lines 486-490
OptimizeNotCreated ==
    /\ opt_pc = "stat"
    /\ output_size = 0
    /\ opt_pc' = "raised"
    /\ opt_raised' = "OutputFileAccessError"
    /\ UNCHANGED <<oopts, pike, jpegs, pngs, jbig2_groups, root, fs, rewrites,
                 encoder_runs, extract_errors>>
    /\ OptFrame

\* The optimised file is discarded unless it is strictly smaller.
MutSavingsNegative == output_size >= input_size

\* optimize(), line 492: savings = 1 - output_size / input_size is negative
\* exactly when the saved file is larger than the input.
SavingsNegative == output_size > input_size

\* optimize(), lines 495-500: the input is saved again, to output_file
OptimizeDiscard ==
    /\ opt_pc = "stat"
    /\ output_size # 0
    /\ SavingsNegative
    /\ \E size \in 1..MaxFileSize :
          fs' = [fs EXCEPT !["output_file"] = File(size)]
    /\ opt_pc' = "returned"
    /\ UNCHANGED <<oopts, pike, jpegs, pngs, jbig2_groups, root, rewrites, opt_raised,
                 encoder_runs, extract_errors>>
    /\ OptFrame

\* optimize(), lines 501-502
OptimizeKeep ==
    /\ opt_pc = "stat"
    /\ output_size # 0
    /\ ~SavingsNegative
    /\ \E unlink_ok \in BOOLEAN :
       LET r == re_symlink(fs, "target_file", "output_file", unlink_ok) IN
          /\ fs' = r.fs
          /\ opt_raised' = r.exc
          /\ opt_pc' = IF r.exc = "none" THEN "returned" ELSE "raised"
    /\ UNCHANGED <<oopts, pike, jpegs, pngs, jbig2_groups, root, rewrites,
                 encoder_runs, extract_errors>>
    /\ OptFrame

NextOptimize ==
    \/ OptimizeZero
    \/ OptimizeSetDefaults
    \/ ExtractImagesGeneric
    \/ TranscodeJpegs
    \/ TranscodePngs
    \/ ExtractImagesJbig2
    \/ ConvertToJbig2
    \/ OptimizeSave
    \/ OptimizeNotCreated
    \/ OptimizeDiscard
    \/ OptimizeKeep

SpecOptimize == InitOptimize /\ [][NextOptimize]_vars

\* C1: for optimize > 0, whenever optimize() returns normally the file at
\* output_file is no larger than input_file, on the keep branch and on the
\* discard-and-re-save branch alike.
C1_OptimiseMonotonic ==
    (opt_pc = "returned" /\ ~OptimizeDisabled(oopts))
        => st_size(fs, "output_file") <= st_size(fs, "input_file")

\* C2: every image object rewritten by a pass of the optimiser (JPEG
\* re-encode, PNG re-insertion, JBIG2 conversion) gets a stream no larger than
\* the one it replaces, and is left unchanged when the candidate is larger.
C2_NoImageGrown ==
    \A r \in rewrites :
        /\ r.written => r.cand <= r.old
        /\ r.cand > r.old => ~r.written

\* C10: with optimize == 0, optimize() makes output_file a symbolic link to
\* input_file and does nothing else: no image is extracted, no PDF object is
\* rewritten, no .opt.pdf is saved, and jpeg_quality, png_quality and
\* jbig2_page_group_size keep their values.
C10_DisabledOnlyLinks ==
    [][oopts.optimize = 0 =>
          /\ opt_pc' = "returned"
          /\ fs' = [fs EXCEPT !["output_file"] = Symlink("input_file")]
          /\ root' = root /\ root = {}
          /\ pike' = pike
          /\ rewrites' = rewrites /\ rewrites = {}
          /\ jpegs' = jpegs /\ pngs' = pngs /\ jbig2_groups' = jbig2_groups
          /\ fs'["target_file"] = Absent
          /\ oopts' = oopts]_optVars

C10_Witness ==
    /\ opt_pc = "returned"
    /\ oopts.optimize = 0
    /\ oopts.jpeg_quality = 0 /\ oopts.png_quality = 0
    /\ oopts.jbig2_page_group_size = 0
    /\ fs["output_file"] = Symlink("input_file")
    /\ working_xrefs(pike) # {}

\* C11: a /DCTDecode image is extracted for JPEG re-encoding only when
\* optimize >= 2, a non-indexed simple-colourspace image for PNG transcoding
\* only when optimize >= 2, a palette-indexed image only when optimize >= 3;
\* at optimize = 1 nothing but bitonal images queued for JBIG2 is extracted
\* or rewritten.
C11_LevelGating ==
    /\ opt_pc = "transcode_jpegs" =>
          /\ \A x \in SeqToSet(jpegs) : oopts.optimize >= 2
          /\ \A x \in SeqToSet(pngs) :
                IF pike.images[x].indexed THEN oopts.optimize >= 3
                ELSE oopts.optimize >= 2
    /\ oopts.optimize = 1 =>
          /\ jpegs = <<>> /\ pngs = <<>>
          /\ \A r \in rewrites : r.pass = "jbig2"

\* C11 as the code has it: a /DCTDecode image is extracted for JPEG
\* re-encoding only when optimize >= 2 and a palette-indexed image only when
\* optimize >= 3, but a non-indexed simple-colourspace image is extracted for
\* PNG transcoding at every level from 1 on; at optimize = 1 no JPEG is
\* re-encoded and no image is given a palette by quantisation.
C11_DerivedLevelGating ==
    /\ opt_pc = "transcode_jpegs" =>
          /\ \A x \in SeqToSet(jpegs) :
                oopts.optimize >= 2 /\ pike.images[x].filters = <<"/DCTDecode">>
          /\ \A x \in SeqToSet(pngs) :
                /\ pike.images[x].cs \in SIMPLE_COLORSPACES
                /\ pike.images[x].indexed => oopts.optimize >= 3
    /\ \A r \in rewrites : r.pass = "jpeg" => oopts.optimize >= 2
    /\ oopts.optimize = 1 =>
          \A r \in rewrites :
              (r.pass = "png" /\ r.written) => ~pike.images[r.xref].indexed

C11_Witness ==
    /\ oopts.optimize = 1
    /\ opt_pc = "returned"
    /\ \E r \in rewrites : r.pass = "png" /\ r.written

\* The xrefs queued for JBIG2 conversion.
QueuedXrefs == UNION {GroupXrefs(jbig2_groups[i]) : i \in 1..Len(jbig2_groups)}

\* C12: an image is queued for JBIG2 only if it has 1 bit per component, its
\* filter is not already /JBIG2Decode and the JBIG2 encoder is available; an
\* image already encoded with /JBIG2Decode is never queued.
C12_OnlyNonJbig2Bitonal ==
    opt_pc = "convert_to_jbig2" =>
        \A x \in QueuedXrefs :
            /\ pike.images[x].bpc = 1
            /\ pike.images[x].filters # <<"/JBIG2Decode">>
            /\ oopts.jbig2enc_available

\* How many entries of the groups name the xref.
Occurrences(x) ==
    Cardinality({<<i, n>> \in (1..Len(jbig2_groups)) \X (1..Cardinality(QueuedXrefs) + 1) :
                    /\ n <= Len(jbig2_groups[i].xref_exts)
                    /\ jbig2_groups[i].xref_exts[n][1] = x})

\* C13: every queued bitonal image belongs to exactly one group, and no group
\* has more than G = jbig2_page_group_size members, also when one page
\* carries several bitonal images.
C13_GroupsOfSizeG ==
    opt_pc = "convert_to_jbig2" =>
        /\ \A x \in QueuedXrefs : Occurrences(x) = 1
        /\ \A i \in 1..Len(jbig2_groups) :
              Len(jbig2_groups[i].xref_exts) <= oopts.jbig2_page_group_size

\* C13 as the code has it: every queued bitonal image belongs to exactly one
\* group, and a group holds the queued images whose first page lies in one
\* block of G consecutive pages (page number divided by G); a group is never
\* empty, and may have more than G members.
C13_DerivedGroupsByPage ==
    opt_pc = "convert_to_jbig2" =>
        /\ \A x \in QueuedXrefs : Occurrences(x) = 1
        /\ \A i, j \in 1..Len(jbig2_groups) :
              jbig2_groups[i].group = jbig2_groups[j].group => i = j
        /\ \A i \in 1..Len(jbig2_groups) :
              /\ jbig2_groups[i].xref_exts # <<>>
              /\ \A x \in GroupXrefs(jbig2_groups[i]) :
                    pageno_for_xref(pike, x) \div oopts.jbig2_page_group_size
                        = jbig2_groups[i].group

C13_Witness ==
    /\ opt_pc = "convert_to_jbig2"
    /\ \E i \in 1..Len(jbig2_groups) :
          Len(jbig2_groups[i].xref_exts) > oopts.jbig2_page_group_size

\* C14: whenever jbig2_lossy is False every queued bitonal image is encoded
\* on its own, without a symbol dictionary (G = 1), whatever value of
\* jbig2_page_group_size the caller passed.
C14_LossyOnlyWhenAsked ==
    ~oopts.jbig2_lossy =>
        /\ \A i \in 1..Len(encoder_runs) : encoder_runs[i].fn = "convert_single"
        /\ \A x \in DOMAIN pike.images : pike.images[x].globals = NoGlobals

ConvertDone == opt_pc \in {"save", "stat", "returned"}
ConvertFailed == opt_pc = "raised" /\ opt_raised = "FileNotFoundError"

\* C15: with G > 1 the encoder is invoked exactly once per group and every
\* image of the group is rewritten with /JBIG2Decode and the /JBIG2Globals of
\* that group's symbol dictionary; with G = 1 every image is encoded by its
\* own invocation and rewritten with /JBIG2Decode and no /JBIG2Globals; with
\* G > 1 and a missing symbol file the conversion raises FileNotFoundError
\* and no image is written without globals.
C15_Jbig2Rewrite ==
    LET G == oopts.jbig2_page_group_size IN
    /\ (ConvertDone \/ ConvertFailed) =>
          /\ G > 1 =>
                /\ Len(encoder_runs) = Len(jbig2_groups)
                /\ \A i \in 1..Len(jbig2_groups) :
                      /\ encoder_runs[i].fn = "convert_group"
                      /\ encoder_runs[i].prefix = jbig2_groups[i].group
                      /\ SeqToSet(encoder_runs[i].infiles) = GroupXrefs(jbig2_groups[i])
                /\ \A r \in rewrites :
                      r.pass = "jbig2" => pike.images[r.xref].globals # NoGlobals
          /\ G = 1 =>
                /\ \A i \in 1..Len(encoder_runs) :
                      /\ encoder_runs[i].fn = "convert_single"
                      /\ Len(encoder_runs[i].infiles) = 1
                /\ \A x \in QueuedXrefs :
                      Cardinality({i \in 1..Len(encoder_runs) :
                                      encoder_runs[i].infiles = <<x>>}) = 1
                /\ Len(encoder_runs) = Cardinality(QueuedXrefs)
    /\ ConvertDone =>
          \A i \in 1..Len(jbig2_groups) : \A x \in GroupXrefs(jbig2_groups[i]) :
              /\ pike.images[x].filters = <<"/JBIG2Decode">>
              /\ pike.images[x].globals =
                    IF G > 1 THEN jbig2_groups[i].group ELSE NoGlobals
              /\ \E r \in rewrites : r.xref = x /\ r.pass = "jbig2" /\ r.written
    /\ ConvertFailed => G > 1
    /\ (opt_pc = "convert_to_jbig2" /\ G > 1 /\ jbig2_groups # <<>>)
          => ENABLED (ConvertToJbig2 /\ opt_raised' = "FileNotFoundError")

C15_Witness ==
    /\ opt_pc = "save"
    /\ oopts.jbig2_page_group_size = 2
    /\ Len(encoder_runs) = 1
    /\ Len(encoder_runs[1].infiles) = 2
    /\ \A x \in {1, 2} : pike.images[x].globals = 0

\* optimize() returned after running the optimiser.
OptimizedAndReturned == opt_pc = "returned" /\ ~OptimizeDisabled(oopts)
Kept == fs["output_file"] = Symlink("target_file")
Resaved == fs["output_file"].kind = "file"

\* C16: optimize() keeps the optimised file (output_file links to the
\* .opt.pdf) if and only if it is strictly smaller than input_file; when it
\* is equal or larger, output_file is a re-save of input_file.
C16_KeepIffStrictlySmaller ==
    OptimizedAndReturned =>
        /\ Kept <=> output_size < input_size
        /\ ~Kept => Resaved

\* C16 as the code has it: optimize() keeps the optimised file if and only
\* if it is no larger than input_file (savings >= 0); only a strictly larger
\* one is discarded and replaced by a re-save of input_file.
C16_DerivedKeepIffNotLarger ==
    OptimizedAndReturned =>
        /\ Kept <=> output_size <= input_size
        /\ ~Kept <=> Resaved
        /\ output_size > 0

C16_Witness ==
    /\ OptimizedAndReturned
    /\ output_size = input_size
    /\ Kept

\* The xrefs some page lists as an XObject, and those that are the /SMask of
\* a listed image.
ListedXrefs == UNION {SeqToSet(pike.pages[i]) : i \in 1..Len(pike.pages)}
SoftMasks == {pike.images[y].smask : y \in {z \in ListedXrefs : pike.images[z].smask # 0}}

\* The xrefs an extraction function wrote a file for, or that a pass queued
\* or rewrote.
Touched ==
    {e[1] : e \in root} \cup {r.xref : r \in rewrites}
    \cup SeqToSet(jpegs) \cup SeqToSet(pngs) \cup QueuedXrefs

\* C17: no image is extracted, queued or rewritten that (a) is the /SMask of
\* an image some page lists, whatever the page order and even if it is also
\* listed itself, (b) has a non-zero generation, (c) has more than 8 bits
\* per component, (d) uses /JPXDecode, or (e) has more than one filter.
C17_SkipRules ==
    \A x \in DOMAIN pike.images :
        (\/ x \in SoftMasks
         \/ pike.images[x].gen # 0
         \/ pike.images[x].bpc > 8
         \/ pike.images[x].filters = <<"/JPXDecode">>
         \/ Len(pike.images[x].filters) > 1)
            => x \notin Touched

\* The 0-based indices of the pages whose XObjects reference the xref.
PagesReferencing(x) == {i - 1 : i \in {j \in 1..Len(pike.pages) : x \in SeqToSet(pike.pages[j])}}

\* C18: every image extract_images yields is reported with the smallest index
\* of the pages that reference it, also when it is used on several pages or
\* several times on one page, and no xref is yielded twice.
C18_FirstPageRecorded ==
    /\ \A fn \in {"extract_image_generic", "extract_image_jbig2"} :
       \A failing \in SUBSET MayFailDecode(pike) :
           LET yielded == extract_images(pike, oopts, fn, failing) IN
           /\ \A y \in yielded :
                 /\ y.pageno \in PagesReferencing(y.xref)
                 /\ \A n \in PagesReferencing(y.xref) : y.pageno <= n
           /\ \A y, z \in yielded : y.xref = z.xref => y = z
    /\ (opt_pc = "convert_to_jbig2" /\ oopts.jbig2_page_group_size = 1) =>
          \A i \in 1..Len(jbig2_groups) : \A x \in GroupXrefs(jbig2_groups[i]) :
              /\ jbig2_groups[i].group \in PagesReferencing(x)
              /\ \A n \in PagesReferencing(x) : jbig2_groups[i].group <= n

C18_Witness ==
    /\ opt_pc = "convert_to_jbig2"
    /\ oopts.jbig2_page_group_size = 1
    /\ pike.pages = << <<2>>, <<1, 2, 1>> >>
    /\ jbig2_groups = << [group |-> 1, xref_exts |-> << <<1, ".png">> >>],
                         [group |-> 0, xref_exts |-> << <<2, ".png">> >>] >>

(***************************************************************************)
(* A pass that runs its encoders in a thread pool: _produce_jbig2_images   *)
(* followed by the write loop of convert_to_jbig2, and the pngquant pool   *)
(* of transcode_pngs followed by its write loop.  A task is an encoder     *)
(* invocation; tasks[t].ok tells whether that invocation succeeds, and     *)
(* tasks[t].images lists the xrefs whose streams it produces.              *)
(***************************************************************************)
\* Largest number of encoder tasks in a pass, and largest options.jobs.
MaxTasks == 3
MaxJobs == 2

TaskIds == 1..Len(tasks)
Running == {t \in TaskIds : task_state[t] = "running"}
Queued == {t \in TaskIds : task_state[t] = "queued"}

\* The pool starts a queued task whatever the number of running ones.
MutFreeWorker == TRUE

\* ThreadPoolExecutor(max_workers=options.jobs): a queued task is started
\* only while fewer than max_workers are running.
FreeWorker == Cardinality(Running) < jobs

\* The with block is left as soon as every task has been submitted.
MutAllFinished == \A t \in TaskIds : task_state[t] # "new"

\* Leaving the with block (shutdown(wait=True)) waits for every task.
AllFinished == \A t \in TaskIds : task_state[t] = "done"

InitPool ==
    /\ pool_pc = "submit"
    /\ pool_pass \in {"jbig2", "png"}
    /\ jobs \in 1..MaxJobs
    /\ \E n \in 0..MaxTasks :
          /\ \E oks \in [1..n -> BOOLEAN] :
                tasks = [t \in 1..n |-> [images |-> <<t>>, ok |-> oks[t]]]
          /\ task_state = [t \in 1..n |-> "new"]
    /\ finished = <<>>
    /\ collected = 0
    /\ pool_exc = "none"
    /\ pdf_writes = <<>>
    /\ write_idx = 0
    /\ PagesIdle /\ RunIdle /\ S3Idle /\ OptIdle /\ LinkIdle

PoolFrame == UNCHANGED <<pagesVars, runVars, s3Vars, optVars, linkVars>>

\* executor.submit: lines 242-247, 256-261 and 358-366.  as_completed takes
\* the set of all futures before it hands out the first one, so every task is
\* submitted before any is collected.
PoolSubmit ==
    /\ pool_pc = "submit"
    /\ IF \E t \in TaskIds : task_state[t] = "new"
       THEN LET t == CHOOSE u \in TaskIds :
                        /\ task_state[u] = "new"
                        /\ \A v \in TaskIds : task_state[v] = "new" => u <= v
            IN /\ task_state' = [task_state EXCEPT ![t] = "queued"]
               /\ UNCHANGED pool_pc
       ELSE /\ pool_pc' = IF tasks = <<>> THEN "join" ELSE "collect"
            /\ UNCHANGED task_state
    /\ UNCHANGED <<pool_pass, jobs, tasks, finished, collected, pool_exc, pdf_writes,
                   write_idx>>
    /\ PoolFrame

\* A worker thread takes the oldest queued task and calls the encoder.
PoolStart(t) ==
    /\ t \in Queued
    /\ \A u \in Queued : t <= u
    /\ FreeWorker
    /\ task_state' = [task_state EXCEPT ![t] = "running"]
    /\ UNCHANGED <<pool_pc, pool_pass, jobs, tasks, finished, collected, pool_exc,
                   pdf_writes, write_idx>>
    /\ PoolFrame

\* The encoder of a running task returns or fails.
PoolFinish(t) ==
    /\ t \in Running
    /\ task_state' = [task_state EXCEPT ![t] = "done"]
    /\ finished' = Append(finished, t)
    /\ UNCHANGED <<pool_pc, pool_pass, jobs, tasks, collected, pool_exc, pdf_writes,
                   write_idx>>
    /\ PoolFrame

\* lines 277-280 and 372-373: the loop over as_completed.  Only the JBIG2
\* pass calls future.result(), which raises what the task raised.
PoolCollect ==
    /\ pool_pc = "collect"
    /\ collected < Len(finished)
    /\ LET t == finished[collected + 1] IN
       IF pool_pass = "jbig2" /\ ~tasks[t].ok
       THEN /\ pool_exc' = "CalledProcessError"
            /\ pool_pc' = "join"
            /\ UNCHANGED collected
       ELSE /\ collected' = collected + 1
            /\ pool_pc' = IF collected + 1 = Len(tasks) THEN "join" ELSE "collect"
            /\ UNCHANGED pool_exc
    /\ UNCHANGED <<pool_pass, jobs, tasks, task_state, finished, pdf_writes, write_idx>>
    /\ PoolFrame

\* The with block of the executor is left, normally or by the exception.
PoolJoin ==
    /\ pool_pc = "join"
    /\ AllFinished
    /\ pool_pc' = IF pool_exc # "none" THEN "raised"
                  ELSE IF tasks = <<>> THEN "done" ELSE "write"
    /\ UNCHANGED <<pool_pass, jobs, tasks, task_state, finished, collected, pool_exc,
                   pdf_writes, write_idx>>
    /\ PoolFrame

\* What the write loop finds for a task: the encoder's output, or nothing
\* while the task has not written it.
OutputOf(t) ==
    IF task_state[t] = "done" /\ tasks[t].ok THEN "encoded" ELSE "missing"

\* The images are written inside the loop over as_completed, while encoders
\* may still be running.
MutPoolWrite ==
    /\ pool_pc \in {"collect", "write"}
    /\ write_idx < Len(tasks)
    /\ LET t == write_idx + 1 IN
       /\ IF OutputOf(t) = "encoded"
          THEN /\ pdf_writes' = pdf_writes \o tasks[t].images
               /\ pool_pc' = IF t = Len(tasks) THEN "done" ELSE pool_pc
               /\ UNCHANGED pool_exc
          ELSE IF pool_pass = "png"
          THEN /\ pool_pc' = IF t = Len(tasks) THEN "done" ELSE pool_pc
               /\ UNCHANGED <<pdf_writes, pool_exc>>
          ELSE /\ pool_pc' = "raised"
               /\ pool_exc' = "FileNotFoundError"
               /\ UNCHANGED pdf_writes
       /\ write_idx' = t
    /\ UNCHANGED <<pool_pass, jobs, tasks, task_state, finished, collected>>
    /\ PoolFrame

\* lines 313-319 and 375-449: the write loop, one task's images per step.
\* Without its file the PNG loop skips the image (LeptonicaError) and the
\* JBIG2 loop raises FileNotFoundError.
PoolWrite ==
    /\ pool_pc = "write"
    /\ LET t == write_idx + 1 IN
       /\ IF OutputOf(t) = "encoded"
          THEN /\ pdf_writes' = pdf_writes \o tasks[t].images
               /\ pool_pc' = IF t = Len(tasks) THEN "done" ELSE "write"
               /\ UNCHANGED pool_exc
          ELSE IF pool_pass = "png"
          THEN /\ pool_pc' = IF t = Len(tasks) THEN "done" ELSE "write"
               /\ UNCHANGED <<pdf_writes, pool_exc>>
          ELSE /\ pool_pc' = "raised"
               /\ pool_exc' = "FileNotFoundError"
               /\ UNCHANGED pdf_writes
       /\ write_idx' = t
    /\ UNCHANGED <<pool_pass, jobs, tasks, task_state, finished, collected>>
    /\ PoolFrame

NextPool ==
    \/ PoolSubmit
    \/ \E t \in 1..MaxTasks : PoolStart(t)
    \/ \E t \in 1..MaxTasks : PoolFinish(t)
    \/ PoolCollect
    \/ PoolJoin
    \/ PoolWrite

SpecPool == InitPool /\ [][NextPool]_vars

\* Every thread that can take a step eventually does, and every encoder
\* invocation ends.
PoolFairness ==
    /\ WF_vars(PoolSubmit) /\ WF_vars(PoolCollect) /\ WF_vars(PoolJoin)
    /\ WF_vars(PoolWrite)
    /\ \A t \in 1..MaxTasks : WF_vars(PoolStart(t)) /\ WF_vars(PoolFinish(t))

SpecPoolFair == SpecPool /\ PoolFairness


\* The pass is over: its function has returned or raised.
PassEnded == pool_pc \in {"done", "raised"}

\* C19: at most options.jobs encoder invocations are in progress at any
\* instant, a task submitted while every worker is busy stays queued, every
\* submitted task eventually runs, and the pass ends only after every task
\* has finished.
C19_BoundedPool ==
    /\ [](Cardinality(Running) <= jobs)
    /\ [][\A t \in 1..MaxTasks :
            (t \in Queued /\ Cardinality(Running) = jobs /\ Running' = Running)
                => t \in Queued']_poolVars
    /\ \A t \in 1..MaxTasks :
          (t \in Queued) ~> (t \in TaskIds /\ task_state[t] \in {"running", "done"})
    /\ [](PassEnded => \A t \in TaskIds : task_state[t] = "done")

\* Every worker is busy while a submitted task waits.
C19_Witness ==
    /\ Cardinality(Running) = jobs
    /\ Queued # {}
    /\ Len(finished) > 0

\* The streams the pass has to rewrite: those of the tasks whose encoder
\* produced its output, whatever the order in which they completed.
ExpectedWrites == {tasks[t].images[1] : t \in {u \in TaskIds : tasks[u].ok}}
Written == {pdf_writes[i] : i \in 1..Len(pdf_writes)}

\* C20: the image objects of the PDF are written only by the coordinating
\* thread and only once every encoder task of the pass has completed, and
\* the set of rewritten streams of a finished pass does not depend on the
\* interleaving or the completion order of the tasks.
C20_CoordinatorWrites ==
    /\ [][pdf_writes' # pdf_writes =>
            /\ pool_pc = "write"
            /\ \A t \in TaskIds : task_state[t] = "done"
            /\ task_state' = task_state]_poolVars
    /\ [](pool_pc = "done" => Written = ExpectedWrites)
    /\ [](pool_pc = "raised" => Written = {})

\* A pass whose tasks completed in another order than they were submitted
\* has been written out.
C20_Witness ==
    /\ pool_pc = "done"
    /\ Len(finished) > 1
    /\ finished[1] > finished[2]
    /\ Len(pdf_writes) > 1


\* The images the PNG pass has re-inserted when transcode_pngs returns.
PngInserted ==
    {r.xref : r \in {q \in rewrites : q.pass = "png" /\ q.written}}

\* C21: transcode_pngs sets /Decode [1 0] on a re-inserted image exactly when
\* the PNG is 1-bit-per-sample non-indexed grayscale; a palette-indexed image
\* and an image deeper than 1 bit never receive /Decode [1 0].
C21_DecodeOnlyBitonalGray ==
    opt_pc = "extract_images_jbig2" =>
        \A x \in PngInserted :
            (pike.images[x].decode = "[1 0]")
                <=> (/\ pike.images[x].bpc = 1
                     /\ ~pike.images[x].indexed
                     /\ pike.images[x].cs = "/DeviceGray")


\* The handler has left the function: it returned or re-raised.
S3Ended == s3_pc \in {"returned", "raised"}

\* C22: ocrmypdf.ocr is invoked at most twice per event; the second
\* invocation happens only if the first raised EncryptedPdfError and it runs
\* on the rasterised copy of the input; any other exception of the first
\* call, and any exception of the second, propagates to the caller with no
\* further call.
C22_EncryptedRetry ==
    /\ Len(ocr_calls) <= 2 /\ Len(ocr_inputs) = Len(ocr_calls)
    /\ Len(ocr_calls) >= 1 =>
          ocr_inputs[1] = [file |-> "inputname", holds |-> "original"]
    /\ Len(ocr_calls) = 2 =>
          /\ ocr_calls[1] = "EncryptedPdfError"
          /\ ocr_inputs[2] = [file |-> "_inputname", holds |-> "raster"]
    /\ (Len(ocr_calls) = 1 /\ ocr_calls[1] = "OtherError") =>
          s3_pc = "raised" /\ s3_raised = "OtherError"
    /\ (Len(ocr_calls) = 2 /\ ocr_calls[2] # "ok") =>
          s3_pc = "raised" /\ s3_raised = ocr_calls[2]
    /\ (S3Ended /\ Len(ocr_calls) = 1 /\ ocr_calls[1] = "EncryptedPdfError") =>
          s3_pc = "raised" /\ s3_raised = "OtherError"

\* The retry ran on the rasterised copy and raised in its turn.
C22_Witness ==
    /\ s3_pc = "raised"
    /\ ocr_calls = <<"EncryptedPdfError", "EncryptedPdfError">>
    /\ ocr_inputs[2].holds = "raster"
    /\ s3_raised = "EncryptedPdfError"


\* Some word of the list holds a '/'.
HasSlash(words) ==
    \E i \in 1..Len(words) : \E j \in 1..Len(words[i]) : words[i][j] = "/"

\* options.unpaper_args is still the string of the command line and some
\* shell-split token of it holds a '/'.
SlashGiven ==
    /\ options.unpaper_args.kind = "str"
    /\ HasSlash(shlex_split(options.unpaper_args.chars))

\* check_options_preprocessing returned with custom unpaper arguments.
UnpaperArgsAccepted ==
    Passed("check_options_preprocessing") /\ Truthy(options.unpaper_args)

\* C23: check_options_preprocessing accepts unpaper_args only when clean is
\* in effect (set directly or implied by clean_final, which always forces
\* clean to true), and raises BadArgsError for every argument string in
\* which some shell-split token contains '/'; every accepted argument list
\* is free of '/'.
C23_UnpaperArgsNoPath ==
    Reached("check_options_preprocessing") =>
        /\ options.clean_final => options.clean
        /\ UnpaperArgsAccepted =>
              /\ options.clean
              /\ options.unpaper_args.kind = "list"
              /\ ~HasSlash(options.unpaper_args.list)
        /\ SlashGiven =>
              failed_at = "check_options_preprocessing" /\ exc = "BadArgsError"

\* C23 as the code has it: an argument string with a '/' in some token is
\* never accepted, but the exception is MissingDependencyError when clean is
\* in effect and unpaper is missing, because the program is looked for
\* before the arguments are validated; otherwise it is BadArgsError.
C23_DerivedUnpaperArgsNoPath ==
    Reached("check_options_preprocessing") =>
        /\ options.clean_final => options.clean
        /\ UnpaperArgsAccepted =>
              /\ options.clean
              /\ options.unpaper_args.kind = "list"
              /\ ~HasSlash(options.unpaper_args.list)
        /\ SlashGiven =>
              /\ failed_at = "check_options_preprocessing"
              /\ exc = IF options.clean /\ ~env.unpaper_ok
                       THEN "MissingDependencyError" ELSE "BadArgsError"

\* Arguments whose second token holds a '/' were rejected although clean was
\* implied by clean_final and unpaper is installed.
C23_Witness ==
    /\ failed_at = "check_options_preprocessing" /\ exc = "BadArgsError"
    /\ options.clean_final /\ options.clean /\ env.unpaper_ok
    /\ options.unpaper_args = Str(<<"-", "x", " ", "/", "e">>)


(***************************************************************************)
(* helpers.re_symlink called on its own, for every file system over three  *)
(* paths of the working directory /w and every spelling of its arguments.  *)
(***************************************************************************)
LinkPaths == {"/w/in.pdf", "/w/out.pdf", "/w/old.pdf"}
LinkFileSystems ==
    { [p \in LinkPaths |-> IF p = "/w/old.pdf" THEN old
                           ELSE IF p = "/w/in.pdf" THEN in ELSE out] :
        old \in {Absent, File(1)},
        in \in {Absent, File(1), Symlink("/w/old.pdf")},
        out \in {Absent, File(1), Symlink("/w/old.pdf"), Symlink("/w/in.pdf")} }
LinkArgs ==
    [ input_file : {"in.pdf", "/w/in.pdf", "out.pdf", "/w/out.pdf"},
      soft_link_name : {"out.pdf", "/w/out.pdf"} ]

InitSymlink ==
    /\ ln_pc = "call"
    /\ ln_args \in LinkArgs
    /\ ln_before \in LinkFileSystems
    /\ ln_fs = ln_before
    /\ ln_exc = "none"
    /\ PagesIdle /\ RunIdle /\ S3Idle /\ OptIdle /\ PoolIdle

\* re_symlink(input_file, soft_link_name), lines 31-66
ReSymlink ==
    /\ ln_pc = "call"
    /\ \E unlink_ok \in BOOLEAN :
          LET r == re_symlink(ln_fs, ln_args.input_file, ln_args.soft_link_name,
                              unlink_ok)
          IN /\ ln_fs' = r.fs
             /\ ln_exc' = r.exc
             /\ ln_pc' = IF r.exc = "none" THEN "returned" ELSE "raised"
    /\ UNCHANGED <<ln_args, ln_before, pagesVars, runVars, s3Vars, optVars, poolVars>>

NextSymlink == ReSymlink

SpecSymlink == InitSymlink /\ [][NextSymlink]_vars

\* The two arguments name the same path.
SamePath == abspath(ln_args.input_file) = abspath(ln_args.soft_link_name)
SoftLink == abspath(ln_args.soft_link_name)

\* C24: re_symlink never deletes or overwrites a real file: if soft_link_name
\* exists and is not a symbolic link it raises FileExistsError and leaves the
\* file in place; if input_file and soft_link_name are the same path it makes
\* no link and changes nothing; on success soft_link_name is a symbolic link
\* to the absolute path of input_file, replacing any previous symbolic link.
C24_NeverClobbers ==
    ln_pc \in {"returned", "raised"} =>
        /\ \A p \in LinkPaths : ln_before[p].kind = "file" => ln_fs[p] = ln_before[p]
        /\ (ln_before[SoftLink].kind = "file" /\ ~SamePath) =>
              ln_pc = "raised" /\ ln_exc = "FileExistsError"
        /\ SamePath => ln_fs = ln_before
        /\ (ln_pc = "returned" /\ ~SamePath) =>
              ln_fs[SoftLink] = Symlink(abspath(ln_args.input_file))

\* C25: whenever re_symlink raises (FileExistsError, or FileNotFoundError
\* because input_file does not exist) the file system is as before the call;
\* a symbolic link that existed at soft_link_name still exists and still
\* points to its previous target.
C25_RaiseLeavesStateUnchanged ==
    ln_pc = "raised" => ln_fs = ln_before


\* The images convert_to_jbig2 has written.
Jbig2Written == {r.xref : r \in {q \in rewrites : q.pass = "jbig2"}}

\* C26: in convert_to_jbig2, for G = 1 and for G > 1, the image at position
\* n of a group is rewritten with the encoder output that was produced from
\* that same image's extracted file; no two encoder tasks write the same
\* output file, and no image receives another image's data.
C26_DataBackToItsImage ==
    /\ \A x \in Jbig2Written : pike.images[x].jbig2_from = x
    /\ \A i, j \in 1..Len(encoder_runs) :
          i # j => {f.name : f \in EncoderOutputs(encoder_runs[i])}
                     \cap {f.name : f \in EncoderOutputs(encoder_runs[j])} = {}
    /\ \A i \in 1..Len(encoder_runs) :
          Cardinality(EncoderOutputs(encoder_runs[i])) = Len(encoder_runs[i].infiles)

\* Two images of one group were encoded one by one and each has received
\* its own data.
C26_Witness ==
    /\ ConvertDone
    /\ Len(encoder_runs) = 2
    /\ encoder_runs[1].fn = "convert_single"
    /\ encoder_runs[1].prefix = encoder_runs[2].prefix
    /\ Jbig2Written = {1, 2}
    /\ pike.images[1].jbig2_from = 1 /\ pike.images[2].jbig2_from = 2


\* C27: when the event's doBackup is truthy, the file as it was downloaded
\* is uploaded to key + '.bak' before the upload that overwrites key starts,
\* and if the backup upload raises, the object at key is not overwritten;
\* when doBackup is falsy no '.bak' object is written.
C27_BackupPrecedesOverwrite ==
    /\ [](EventTruthy(event.doBackup) =>
            /\ s3_pc \in {"upload", "cleanup"} =>
                  /\ uploads # <<>> /\ Head(uploads) = "bak"
                  /\ bucket_obj.bak = "original"
            /\ "key" \in SeqToSet(uploads) => uploads = <<"bak", "key">>
            /\ "bak" \notin SeqToSet(uploads) =>
                  /\ "key" \notin SeqToSet(uploads)
                  /\ bucket_obj.key \in {"original", "absent"})
    /\ [](~EventTruthy(event.doBackup) =>
            /\ "bak" \notin SeqToSet(uploads)
            /\ bucket_obj.bak \in {"absent", "old_backup"})
    /\ [][bucket_obj.key' # bucket_obj.key =>
            (EventTruthy(event.doBackup) =>
                uploads = <<"bak">> /\ bucket_obj.bak = "original")]_s3Vars
    /\ [][bucket_obj.bak' # bucket_obj.bak =>
            /\ EventTruthy(event.doBackup)
            /\ bucket_obj'.bak = tmp.input /\ tmp.input = "original"
            /\ bucket_obj'.key = bucket_obj.key]_s3Vars

\* The backup of the original was uploaded and then key was overwritten with
\* the OCR output.
C27_Witness ==
    /\ s3_pc = "returned"
    /\ EventTruthy(event.doBackup)
    /\ uploads = <<"bak", "key">>
    /\ bucket_obj = [key |-> "complete", bak |-> "original"]


\* The xrefs for which a call of the extraction function raised.
ErrorsOf(fn) == {e.xref : e \in {d \in extract_errors : d.fn = fn}}
RewrittenBy(passes) == {r.xref : r \in {q \in rewrites : q.pass \in passes /\ q.written}}

C29_OnePassPerImage ==
    /\ SeqToSet(jpegs) \cap SeqToSet(pngs) = {}
    /\ SeqToSet(jpegs) \cap QueuedXrefs = {}
    /\ SeqToSet(pngs) \cap QueuedXrefs = {}
    /\ \A r, q \in rewrites :
          (r.xref = q.xref /\ r.written /\ q.written) => r.pass = q.pass

\* One of the options that change the page images is set.
AnyLossy ==
    \/ options.deskew \/ options.clean_final
    \/ options.force_ocr \/ options.remove_background

\* check_options_output raised before it computed lossless_reconstruction:
\* the sandwich renderer without textonly_pdf, or pdfa-3 with an old
\* Ghostscript.
OutputDependencyMissing ==
    \/ options.pdf_renderer = "sandwich" /\ ~env.has_textonly_pdf
    \/ options.output_type = "pdfa-3" /\ env.gs_before_919

\* C30: redo_ocr requires lossless reconstruction: check_options_output sets
\* options.lossless_reconstruction to true if and only if none of deskew,
\* clean_final, force_ocr, remove_background is set, and raises BadArgsError
\* when redo_ocr is set together with any of those four; so after successful
\* validation redo_ocr implies lossless_reconstruction.
C30_RedoOcrNeedsLossless ==
    /\ Reached("check_options_output")
           => (options.lossless_reconstruction = "True" <=> ~AnyLossy)
    /\ (Reached("check_options_output") /\ options.redo_ocr /\ AnyLossy)
           => (failed_at = "check_options_output" /\ exc = "BadArgsError")
    /\ (Validated /\ exc = "none" /\ options.redo_ocr)
           => options.lossless_reconstruction = "True"

\* C30 as the code has it: check_options_output first raises
\* MissingDependencyError, with lossless_reconstruction not set, when the
\* renderer or the output type lacks its dependency; otherwise it sets
\* lossless_reconstruction to true exactly when none of the four options is
\* set and raises BadArgsError for redo_ocr with any of them; after
\* successful validation redo_ocr implies lossless_reconstruction.
C30_DerivedRedoOcrNeedsLossless ==
    /\ (Reached("check_options_output") /\ OutputDependencyMissing)
           => /\ failed_at = "check_options_output"
              /\ exc = "MissingDependencyError"
              /\ options.lossless_reconstruction = "unset"
    /\ (Reached("check_options_output") /\ ~OutputDependencyMissing)
           => /\ options.lossless_reconstruction
                     = IF AnyLossy THEN "False" ELSE "True"
              /\ (options.redo_ocr /\ AnyLossy)
                     => (failed_at = "check_options_output"
                            /\ exc = "BadArgsError")
              /\ failed_at = "check_options_output"
                     => (options.redo_ocr /\ AnyLossy)
    /\ (Validated /\ exc = "none" /\ options.redo_ocr)
           => options.lossless_reconstruction = "True"

\* --redo-ocr with --force-ocr alone of the four was rejected by
\* check_options_output with exit code 1.
C30_Witness ==
    /\ run_pc = "returned"
    /\ options.redo_ocr /\ options.force_ocr
    /\ ~options.deskew /\ ~options.clean_final /\ ~options.remove_background
    /\ options.lossless_reconstruction = "False"
    /\ failed_at = "check_options_output"
    /\ exc = "BadArgsError"
    /\ exit_code = 1

=============================================================================
